---- MODULE Spec2Model ----
(***************************************************************************)
(* A model of py2pd: the Patcher graph model (api.py) with its link,       *)
(* validation, cycle detection, optimisation and auto-layout algorithms,   *)
(* the parsed tree model (ast.py) with parse / serialize, and the bridge   *)
(* between the two (from_builder / to_builder).                            *)
(*                                                                         *)
(* Conventions.  Python lists are sequences; node and element indices in   *)
(* connections are kept 0-based as in the source, so the node a connection *)
(* names is nodes[c.source + 1].  Python's None is the value None.  Object *)
(* identity (the default __eq__ of Node) is the field id of a node record. *)
(* An object's text is the sequence of its whitespace separated tokens.    *)
(***************************************************************************)
EXTENDS Integers, Sequences, FiniteSets, TLC

VARIABLES
    nodes,        \* Patcher.nodes
    connections,  \* Patcher.connections
    foreign,      \* nodes that live in another Patcher
    nextId,       \* number of node objects created so far (object identity)
    call          \* the last operation: its name, arguments and outcome

vars == <<nodes, connections, foreign, nextId, call>>

----------------------------------------------------------------------------
(* Bounds of the model *)

MaxNodes == 3
MaxConns == 1
MaxIndex == 1
MaxForeign == 1
MaxChain == 4
MaxEdits == 2
MaxDepth == 4
MaxStatements == 3
MaxNest == 6
MaxCycleNodes == 9
MaxCycleConns == 4
MaxTree == 5
MaxPrune == 3
MaxPruneConns == 2
MaxLayout == 4
MaxChars == 5

----------------------------------------------------------------------------
(* Values *)

None == -1

Range(s) == {s[i] : i \in DOMAIN s}

\* [f(x) for x in s if p(x)] for sequences, by index
RECURSIVE SelectIdx(_, _, _)
SelectIdx(s, Keep(_), i) ==
    IF i > Len(s) THEN << >>
    ELSE (IF Keep(i) THEN <<s[i]>> ELSE << >>) \o SelectIdx(s, Keep, i + 1)


----------------------------------------------------------------------------
(* Nodes (api.py) *)

\* PD_OBJECT_REGISTRY, restricted to the class names the model uses;
\* a class name outside the registry has no entry
RegistryNames == {"osc~", "dac~", "abs", "t", "inlet", "outlet"}

PD_OBJECT_REGISTRY(class_name) ==
    CASE class_name = "osc~"   -> <<2, 1>>
      [] class_name = "dac~"   -> <<2, 0>>
      [] class_name = "abs"    -> <<1, 1>>
      [] class_name = "t"      -> <<1, None>>
      [] class_name = "inlet"  -> <<0, 1>>
      [] class_name = "outlet" -> <<1, 0>>

\* A Patcher as a value: the inner patch of a Subpatch node
EmptyPatch == [nodes |-> << >>, connections |-> << >>]

\* escape(text) on the tokens of a text: a backslash is doubled, a semicolon
\* and a comma become the tokens \; and \, and a dollar sign before a digit
\* gets a backslash.  The tokens of the model that hold one of these
\* characters are listed with what escape makes of them; it leaves every
\* other token as it is.
EscapeTable ==
    { <<"$1", <<"\\$1">>>>,
      <<"\\$1", <<"\\\\\\$1">>>>,
      <<",", <<"\\,">>>>,
      <<"\\,", <<"\\\\", "\\,">>>>,
      <<"\\;", <<"\\\\", "\\;">>>> }

RECURSIVE escape(_)
escape(text) ==
    IF text = << >> THEN << >>
    ELSE (IF \E p \in EscapeTable : p[1] = Head(text)
          THEN (CHOOSE p \in EscapeTable : p[1] = Head(text))[2]
          ELSE <<Head(text)>>) \o escape(Tail(text))

\* Obj.__init__: the text is kept escaped, the counts are the arguments as given
Obj(id, text, num_inlets, num_outlets) ==
    [id |-> id, kind |-> "Obj", text |-> escape(text), num_inlets |-> num_inlets,
     num_outlets |-> num_outlets, hidden |-> FALSE, src |-> EmptyPatch]

\* Msg.__init__: the text is kept escaped; two inlets and one outlet by default
Msg(id, text) ==
    [id |-> id, kind |-> "Msg", text |-> escape(text), num_inlets |-> 2,
     num_outlets |-> 1, hidden |-> FALSE, src |-> EmptyPatch]

\* Float.__init__: one inlet and one outlet by default
Float(id) ==
    [id |-> id, kind |-> "Float", text |-> << >>, num_inlets |-> 1,
     num_outlets |-> 1, hidden |-> FALSE, src |-> EmptyPatch]

\* Comment.__init__: no inlet, no outlet
Comment(id, text) ==
    [id |-> id, kind |-> "Comment", text |-> text, num_inlets |-> 0,
     num_outlets |-> 0, hidden |-> FALSE, src |-> EmptyPatch]

\* Array.__init__: hidden, no inlet, no outlet
Array(id) ==
    [id |-> id, kind |-> "Array", text |-> << >>, num_inlets |-> 0,
     num_outlets |-> 0, hidden |-> TRUE, src |-> EmptyPatch]

\* the __init__ of the GUI classes and of Symbol: two inlets and no outlet for
\* a VU, one inlet and one outlet for the others
Gui(id, kind) ==
    [id |-> id, kind |-> kind, text |-> << >>,
     num_inlets |-> IF kind = "VU" THEN 2 ELSE 1,
     num_outlets |-> IF kind = "VU" THEN 0 ELSE 1,
     hidden |-> FALSE, src |-> EmptyPatch]

\* Subpatch.__init__: owns the inner patch src
Subpatch(id, name, src, num_inlets, num_outlets) ==
    [id |-> id, kind |-> "Subpatch", text |-> <<name>>, num_inlets |-> num_inlets,
     num_outlets |-> num_outlets, hidden |-> FALSE, src |-> src]

\* Connection.__init__; ends is a history field, not part of the program:
\* the identities of the two node objects the connection was made for
Connection(source, outlet_index, sink, inlet_index, ends) ==
    [source |-> source, outlet_index |-> outlet_index, sink |-> sink,
     inlet_index |-> inlet_index, ends |-> ends]

\* the (source, outlet, sink, inlet) tuple of a connection
Key(c) == <<c.source, c.outlet_index, c.sink, c.inlet_index>>

\* Patcher.add for a plain object: counts not given are filled from the registry
\* when the first token of the text is a registered class name
AddObj(id, text, num_inlets, num_outlets) ==
    LET class_name == IF Len(text) > 0 THEN text[1] ELSE ""
        known == (num_inlets = None \/ num_outlets = None)
                 /\ class_name \in RegistryNames
        reg == PD_OBJECT_REGISTRY(class_name)
    IN Obj(id, text,
           IF known /\ num_inlets = None THEN reg[1] ELSE num_inlets,
           IF known /\ num_outlets = None THEN reg[2] ELSE num_outlets)

\* the sums of Patcher.add_subpatch: the inlet / outlet objects of the inner patch
CountClass(src, names) ==
    Cardinality({i \in DOMAIN src.nodes :
                    /\ src.nodes[i].kind \in {"Obj", "Abstraction"}
                    /\ src.nodes[i].text[1] \in names})

\* Patcher.add_subpatch: counts not given are inferred from the inner patch
AddSubpatch(id, name, src, num_inlets, num_outlets) ==
    Subpatch(id, name, src,
             IF num_inlets = None THEN CountClass(src, {"inlet", "inlet~"})
                                  ELSE num_inlets,
             IF num_outlets = None THEN CountClass(src, {"outlet", "outlet~"})
                                   ELSE num_outlets)

----------------------------------------------------------------------------
(* Patcher.link and Node.__getitem__ *)

\* two node objects that look the same (same kind, text and counts)
Alike(a, b) == [a EXCEPT !.id = 0] = [b EXCEPT !.id = 0]

\* list.index under a structural equality of nodes
IndexOfEqual(ns, node) ==
    IF \E i \in DOMAIN ns : Alike(ns[i], node)
    THEN (CHOOSE i \in DOMAIN ns :
              Alike(ns[i], node) /\ \A j \in 1..(i - 1) : ~Alike(ns[j], node)) - 1
    ELSE None

\* list.index with the default (identity) equality of Node; None for ValueError
IndexOf(ns, node) ==
    IF \E i \in DOMAIN ns : ns[i].id = node.id
    THEN (CHOOSE i \in DOMAIN ns :
              ns[i].id = node.id /\ \A j \in 1..(i - 1) : ns[j].id # node.id) - 1
    ELSE None

\* Node.__getitem__(key): the exception it raises, "" when it returns an Outlet
GetItem(node, key) ==
    IF key < 0 THEN "ValueError"
    ELSE IF node.num_outlets # None /\ key >= node.num_outlets THEN "ValueError"
    ELSE ""

\* Patcher.link: the exception raised ("" for none) and the connection list after
link(ns, cs, source, sink, outlet, inlet) ==
    LET source_index == IndexOf(ns, source)
        sink_index == IndexOf(ns, sink)
    IN IF source_index = None
       THEN [raised |-> "NodeNotFoundError", connections |-> cs]
       ELSE IF sink_index = None
       THEN [raised |-> "NodeNotFoundError", connections |-> cs]
       ELSE IF source.num_outlets # None /\ outlet >= source.num_outlets
       THEN [raised |-> "PdConnectionError", connections |-> cs]
       ELSE IF sink.num_inlets # None /\ inlet >= sink.num_inlets
       THEN [raised |-> "PdConnectionError", connections |-> cs]
       ELSE [raised |-> "",
             connections |->
                 Append(cs, Connection(source_index, outlet, sink_index, inlet,
                                       <<source.id, sink.id>>))]


----------------------------------------------------------------------------
(* Patcher.optimize and Patcher._remap_after_removal *)

\* the 0-based indices of a list, ascending
Indices(s) == 0..(Len(s) - 1)

\* pass 1: drop exact duplicate connections, keeping the first occurrence
Dedup(cs) ==
    SelectIdx(cs, LAMBDA i : \A j \in 1..(i - 1) : Key(cs[j]) # Key(cs[i]), 1)

\* conn_by_sink.get(idx, []) and conn_by_source.get(idx, []): positions in cs
Incoming(cs, idx) == {k \in DOMAIN cs : cs[k].sink = idx}
Outgoing(cs, idx) == {k \in DOMAIN cs : cs[k].source = idx}

\* the test of pass 2 on the node at idx
IsPassThrough(ns, cs, idx, collapsible_objects) ==
    LET node == ns[idx + 1]
        text_parts == node.text
        class_name == IF Len(text_parts) > 0 THEN text_parts[1] ELSE ""
    IN /\ node.kind \in {"Obj", "Abstraction"}
       /\ class_name \in collapsible_objects
       /\ Len(text_parts) <= 1
       /\ node.num_inlets = 1 /\ node.num_outlets = 1
       /\ Cardinality(Incoming(cs, idx)) = 1
       /\ Cardinality(Outgoing(cs, idx)) = 1

\* the nodes pass 2 removes
PassThroughs(ns, cs, collapsible_objects) ==
    IF collapsible_objects = {} THEN {}
    ELSE {idx \in Indices(ns) : IsPassThrough(ns, cs, idx, collapsible_objects)}

\* the bypass connection pass 2 makes for the pass-through node idx: from the
\* source of its incoming connection to the sink of its outgoing connection,
\* both looked up in the connection list as it was before the pass
Bypass(cs, idx) ==
    LET inc == cs[CHOOSE k \in Incoming(cs, idx) : TRUE]
        out == cs[CHOOSE k \in Outgoing(cs, idx) : TRUE]
    IN Connection(inc.source, inc.outlet_index, out.sink, out.inlet_index,
                  <<inc.ends[1], out.ends[2]>>)

\* conns_to_add, in the order of the node loop
RECURSIVE ConnsToAdd(_, _)
ConnsToAdd(cs, removal) ==
    IF removal = {} THEN << >>
    ELSE LET idx == CHOOSE x \in removal : \A y \in removal : x <= y
         IN <<Bypass(cs, idx)>> \o ConnsToAdd(cs, removal \ {idx})

\* pass 2: the connection list after the collapse
Collapse(ns, cs, collapsible_objects) ==
    LET removal == PassThroughs(ns, cs, collapsible_objects)
        conns_to_remove == UNION {Incoming(cs, idx) \cup Outgoing(cs, idx) :
                                     idx \in removal}
    IN SelectIdx(cs, LAMBDA k : k \notin conns_to_remove, 1)
       \o ConnsToAdd(cs, removal)

\* _PROTECTED_TYPES
_PROTECTED_TYPES ==
    {"Comment", "Subpatch", "Abstraction", "Array", "Msg", "Bang", "Toggle",
     "Symbol", "NumberBox", "VSlider", "HSlider", "VRadio", "HRadio", "Canvas",
     "VU", "Float"}

\* _SEND_RECEIVE_INACTIVE
_SEND_RECEIVE_INACTIVE == {"empty", "-", ""}

\* _has_active_send_receive: params.get(key) is None for a node without the
\* parameter
_has_active_send_receive(node) ==
    \/ "send" \in DOMAIN node /\ node.send \notin _SEND_RECEIVE_INACTIVE
    \/ "receive" \in DOMAIN node /\ node.receive \notin _SEND_RECEIVE_INACTIVE

\* pass 3 without the test of the protected types
UnusedOfAnyType(ns, cs, removal_set) ==
    LET connected_nodes == {cs[k].source : k \in DOMAIN cs}
                           \cup {cs[k].sink : k \in DOMAIN cs}
    IN {idx \in Indices(ns) :
           /\ idx \notin connected_nodes
           /\ idx \notin removal_set
           /\ ~_has_active_send_receive(ns[idx + 1])}

\* pass 3: the unconnected nodes that are removed
Unused(ns, cs, removal_set) ==
    LET connected_nodes == {cs[k].source : k \in DOMAIN cs}
                           \cup {cs[k].sink : k \in DOMAIN cs}
    IN {idx \in Indices(ns) :
           /\ idx \notin connected_nodes
           /\ idx \notin removal_set
           /\ ns[idx + 1].kind \notin _PROTECTED_TYPES
           /\ ~_has_active_send_receive(ns[idx + 1])}

\* old_to_new of _remap_after_removal
OldToNewKeep(indices_to_remove, old_idx) == old_idx

OldToNew(indices_to_remove, old_idx) ==
    Cardinality({i \in 0..(old_idx - 1) : i \notin indices_to_remove})

\* _remap_after_removal: the node and connection lists after the removal
_remap_after_removal(ns, cs, indices_to_remove) ==
    IF indices_to_remove = {} THEN [nodes |-> ns, connections |-> cs]
    ELSE [nodes |-> SelectIdx(ns, LAMBDA i : (i - 1) \notin indices_to_remove, 1),
          connections |->
              LET kept == SelectIdx(cs,
                              LAMBDA k : /\ cs[k].source \notin indices_to_remove
                                         /\ cs[k].sink \notin indices_to_remove, 1)
              IN [k \in DOMAIN kept |->
                     Connection(OldToNew(indices_to_remove, kept[k].source),
                                kept[k].outlet_index,
                                OldToNew(indices_to_remove, kept[k].sink),
                                kept[k].inlet_index, kept[k].ends)]]

\* Patcher.optimize on the patch [nodes, connections]: the patch after the call
\* and the returned statistics
RECURSIVE optimize(_, _, _)
optimize(patch, recursive, collapsible_objects) ==
    LET ns0 == IF recursive
               THEN [i \in DOMAIN patch.nodes |->
                        IF patch.nodes[i].kind = "Subpatch"
                        THEN [patch.nodes[i] EXCEPT !.src =
                                 LET r == optimize(@, TRUE, collapsible_objects)
                                 IN [nodes |-> r.nodes, connections |-> r.connections]]
                        ELSE patch.nodes[i]]
               ELSE patch.nodes
        initial_connection_count == Len(patch.connections)
        deduped == Dedup(patch.connections)
        pass_throughs == PassThroughs(ns0, deduped, collapsible_objects)
        collapsed == IF collapsible_objects = {} THEN deduped
                     ELSE Collapse(ns0, deduped, collapsible_objects)
        removal_set == pass_throughs \cup Unused(ns0, collapsed, pass_throughs)
        after == _remap_after_removal(ns0, collapsed, removal_set)
    IN [nodes |-> after.nodes,
        connections |-> after.connections,
        stats |->
           [nodes_removed |-> Cardinality(removal_set),
            connections_removed |-> initial_connection_count - Len(after.connections),
            duplicates_removed |-> Len(patch.connections) - Len(deduped),
            pass_throughs_collapsed |-> Cardinality(pass_throughs),
            subpatches_optimized |->
                IF recursive
                THEN Cardinality({i \in DOMAIN patch.nodes :
                                     patch.nodes[i].kind = "Subpatch"})
                ELSE 0]]


----------------------------------------------------------------------------
(* Patcher.validate_connections and Patcher.detect_cycles *)

\* the ascending sequence of a finite set of integers
RECURSIVE Sorted(_)
Sorted(S) ==
    IF S = {} THEN << >>
    ELSE LET m == CHOOSE x \in S : \A y \in S : x <= y
         IN <<m>> \o Sorted(S \ {m})

\* A Python set of small non-negative integers as CPython stores it: a table
\* of 8 slots (None for an empty one) while it holds fewer than 5 elements,
\* where x goes to slot x mod 8 and, when that is taken, to the next free slot
\* of the probe sequence i -> (5 i + 1) mod 8; from 5 elements on the table has
\* 32 slots and every x below 32 has slot x.  A set is iterated in slot order.
EmptySet == [slot \in 0..7 |-> None]

SetItems(table) == {table[slot] : slot \in 0..7} \ {None}

RECURSIVE Probe(_, _)
Probe(table, i) ==
    IF table[i] = None THEN i ELSE Probe(table, (5 * i + 1) % 8)

\* set.add(x), the history of a set being the sequence of its add calls
RECURSIVE SetOf(_)
SetOf(adds) ==
    IF adds = << >> THEN EmptySet
    ELSE LET table == SetOf(SubSeq(adds, 1, Len(adds) - 1))
             x == adds[Len(adds)]
         IN IF x \in SetItems(table) \/ Cardinality(SetItems(table)) >= 4
            THEN table
            ELSE [table EXCEPT ![Probe(table, x % 8)] = x]

\* "for x in s" for the set made by the add calls
Iterate(adds) ==
    IF Cardinality(Range(adds)) >= 5 THEN Sorted(Range(adds))
    ELSE LET table == SetOf(adds)
         IN SelectIdx([k \in 1..8 |-> table[k - 1]],
                      LAMBDA k : table[k - 1] # None, 1)

\* adjacency of detect_cycles: for each node the sinks it is connected to, in
\* the order the loop over adjacency[node] meets them
Adjacency(ns, cs) ==
    [i \in Indices(ns) |->
        Iterate(SelectIdx([k \in 1..Len(cs) |-> cs[k].sink],
                          LAMBDA k : cs[k].source = i, 1))]

\* the start of the list path, whatever x is
FirstPosOne(path, x) == 1

\* the index of the first occurrence of x in the list path (list.index), 1-based
FirstPos(path, x) ==
    CHOOSE i \in DOMAIN path : path[i] = x /\ \A j \in 1..(i - 1) : path[j] # x

\* dfs of detect_cycles.  The state st holds visited, rec_stack, path and cycles.
\* The recursion is as deep as the longest path; the interpreter's recursion
\* limit (RecursionError on a path of about a thousand nodes) is not modelled.
RECURSIVE dfs(_, _, _)
RECURSIVE dfs_neighbors(_, _, _, _)
dfs(adjacency, node, st) ==
    LET entered == [st EXCEPT !.visited = @ \cup {node},
                              !.rec_stack = @ \cup {node},
                              !.path = Append(@, node)]
        left == dfs_neighbors(adjacency, node, adjacency[node], entered)
    IN [left EXCEPT !.path = SubSeq(@, 1, Len(@) - 1),
                    !.rec_stack = @ \ {node}]

dfs_neighbors(adjacency, node, todo, st) ==
    IF todo = << >> THEN st
    ELSE LET neighbor == Head(todo)
             next ==
                 IF neighbor \notin st.visited
                 THEN dfs(adjacency, neighbor, st)
                 ELSE IF neighbor \in st.rec_stack
                 THEN [st EXCEPT !.cycles =
                          Append(@, SubSeq(st.path, FirstPos(st.path, neighbor),
                                           Len(st.path)) \o <<neighbor>>)]
                 ELSE st
         IN dfs_neighbors(adjacency, node, Tail(todo), next)

\* the outer loop of detect_cycles over range(len(self.nodes))
RECURSIVE detect_from(_, _, _, _)
detect_from(adjacency, node, n, st) ==
    IF node >= n THEN st
    ELSE detect_from(adjacency, node + 1, n,
                     IF node \notin st.visited THEN dfs(adjacency, node, st) ELSE st)

\* Patcher.detect_cycles: the list of cycles
detect_cycles(ns, cs) ==
    detect_from(Adjacency(ns, cs), 0, Len(ns),
                [visited |-> {}, rec_stack |-> {}, path |-> << >>,
                 cycles |-> << >>]).cycles

\* the errors validate_connections appends for the connection conn, in order
ConnErrorsNoNegative(ns, conn) ==
    LET source_node == ns[conn.source + 1]
        sink_node == ns[conn.sink + 1]
    IN (IF source_node.num_outlets # None
           /\ conn.outlet_index >= source_node.num_outlets
        THEN <<[what |-> "Invalid outlet index", conn |-> Key(conn)]>>
        ELSE << >>)
       \o
       (IF sink_node.num_inlets # None /\ conn.inlet_index >= sink_node.num_inlets
        THEN <<[what |-> "Invalid inlet index", conn |-> Key(conn)]>>
        ELSE << >>)

ConnErrors(ns, conn) ==
    LET source_node == ns[conn.source + 1]
        sink_node == ns[conn.sink + 1]
    IN (IF source_node.num_outlets # None
        THEN IF conn.outlet_index >= source_node.num_outlets
             THEN <<[what |-> "Invalid outlet index", conn |-> Key(conn)]>>
             ELSE IF conn.outlet_index < 0
             THEN <<[what |-> "Negative outlet index", conn |-> Key(conn)]>>
             ELSE << >>
        ELSE << >>)
       \o
       (IF sink_node.num_inlets # None
        THEN IF conn.inlet_index >= sink_node.num_inlets
             THEN <<[what |-> "Invalid inlet index", conn |-> Key(conn)]>>
             ELSE IF conn.inlet_index < 0
             THEN <<[what |-> "Negative inlet index", conn |-> Key(conn)]>>
             ELSE << >>
        ELSE << >>)

\* the errors list after the loop over self.connections
RECURSIVE Errors(_, _, _)
Errors(ns, cs, k) ==
    IF k > Len(cs) THEN << >>
    ELSE ConnErrors(ns, cs[k]) \o Errors(ns, cs, k + 1)

\* validate_connections that treats a cycle as an error
validate_connections_strict(ns, cs, check_cycles) ==
    LET errors == Errors(ns, cs, 1)
        cycles == IF check_cycles THEN detect_cycles(ns, cs) ELSE << >>
    IN [raised |-> IF errors # << >> \/ cycles # << >>
                   THEN "InvalidConnectionError" ELSE "",
        found |-> Len(errors),
        errors |-> errors,
        warnings |-> Len(cycles)]

\* Patcher.validate_connections: the exception raised ("" for none), the count
\* in "Found N invalid connection(s)", the listed items (also the list returned
\* when nothing is raised) and the number of CycleWarning warnings issued
validate_connections(ns, cs, check_cycles) ==
    LET errors == Errors(ns, cs, 1)
        cycles == IF check_cycles THEN detect_cycles(ns, cs) ELSE << >>
    IN [raised |-> IF errors # << >> THEN "InvalidConnectionError" ELSE "",
        found |-> Len(errors),
        errors |-> errors,
        warnings |-> Len(cycles)]


----------------------------------------------------------------------------
(* The graph model as a state machine: one action per call *)

\* the inputs of Patcher.add: text, num_inlets, num_outlets
AddChoices ==
    { <<<<"osc~", "440">>, None, None>>,
      <<<<"dac~">>, None, None>>,
      <<<<"foo">>, None, None>>,
      <<<<"osc~", "440">>, None, 2>> }

\* the outlet and inlet indices passed to link, and the keys of node[key]
PortArgs == (0 - 1)..MaxIndex

NoCall == [op |-> "init"]

Init ==
    /\ nodes = << >>
    /\ connections = << >>
    /\ foreign = {}
    /\ nextId = 0
    /\ call = NoCall

\* the node objects a caller can hold
Held == Range(nodes) \cup foreign

\* p.add(text, num_inlets=..., num_outlets=...)
Add ==
    /\ Len(nodes) < MaxNodes
    /\ nextId < MaxNodes
    /\ \E ch \in AddChoices :
          /\ nodes' = Append(nodes, AddObj(nextId, ch[1], ch[2], ch[3]))
          /\ call' = [op |-> "add"]
    /\ nextId' = nextId + 1
    /\ UNCHANGED <<connections, foreign>>

\* other.add(text): a node of another Patcher; its identity is drawn from the
\* negative numbers, apart from every identity of this Patcher's nodes
AddForeign ==
    /\ Cardinality(foreign) < MaxForeign
    /\ \E ch \in AddChoices :
          /\ foreign' = foreign \cup
                {AddObj(0 - 1 - Cardinality(foreign), ch[1], ch[2], ch[3])}
          /\ call' = [op |-> "add"]
    /\ UNCHANGED <<nodes, connections, nextId>>

\* p.link(source, sink, outlet, inlet) with a bare node as source
Link ==
    /\ Len(connections) < MaxConns
    /\ \E source \in Held, sink \in Held, outlet \in PortArgs, inlet \in PortArgs :
          LET r == link(nodes, connections, source, sink, outlet, inlet)
          IN /\ connections' = r.connections
             /\ call' = [op |-> "link", handle |-> FALSE,
                         source |-> source.id, sink |-> sink.id,
                         nonneg |-> outlet >= 0 /\ inlet >= 0,
                         raised |-> r.raised]
    /\ UNCHANGED <<nodes, foreign, nextId>>

\* p.link(source[key], sink, inlet=inlet): source[key] is evaluated first, and
\* link is called only when it returns an Outlet handle; link then takes the
\* handle's index for the outlet, whatever its outlet argument
LinkOutlet ==
    /\ Len(connections) < MaxConns
    /\ \E source \in Held, sink \in Held, key \in PortArgs, inlet \in PortArgs :
          IF GetItem(source, key) # ""
          THEN /\ call' = [op |-> "getitem", nonneg |-> key >= 0,
                           raised |-> GetItem(source, key)]
               /\ UNCHANGED connections
          ELSE LET r == link(nodes, connections, source, sink, key, inlet)
               IN /\ connections' = r.connections
                  /\ call' = [op |-> "link", handle |-> TRUE,
                              source |-> source.id, sink |-> sink.id,
                              nonneg |-> key >= 0 /\ inlet >= 0,
                              raised |-> r.raised]
    /\ UNCHANGED <<nodes, foreign, nextId>>

\* the sets of collapsible class names passed to optimize
CollapsibleChoices == { {}, {"abs"} }

\* p.optimize(recursive=..., collapsible_objects=...)
Optimize ==
    /\ \E recursive \in BOOLEAN, collapsible_objects \in CollapsibleChoices :
          LET r == optimize([nodes |-> nodes, connections |-> connections],
                            recursive, collapsible_objects)
          IN /\ nodes' = r.nodes
             /\ connections' = r.connections
             /\ call' = [op |-> "optimize", recursive |-> recursive,
                         collapsible_objects |-> collapsible_objects,
                         stats |-> r.stats]
    /\ UNCHANGED <<foreign, nextId>>

Next ==
    \/ Add
    \/ AddForeign
    \/ Link
    \/ LinkOutlet
    \/ Optimize

Spec == Init /\ [][Next]_vars

----------------------------------------------------------------------------
(* Connections and the nodes they denote *)

\* the object with this identity is one of the objects of the node list
IsMember(id) == \E i \in 1..Len(nodes) : nodes[i].id = id

\* C5: after any sequence of add, link and optimize calls, every connection's
\* source and sink are indices into the node list, and the nodes at those
\* indices are the very objects the connection was made between
ConnectionsDenoteTheirNodes ==
    \A k \in 1..Len(connections) :
        LET c == connections[k]
        IN /\ c.source \in 0..(Len(nodes) - 1)
           /\ c.sink \in 0..(Len(nodes) - 1)
           /\ nodes[c.source + 1].id = c.ends[1]
           /\ nodes[c.sink + 1].id = c.ends[2]

\* optimize has just removed a node of a patch none of whose nodes had been
\* removed before (so that identities were the indices), and a connection
\* survives whose source has been renumbered
RenumberedAfterOptimize ==
    /\ call.op = "optimize"
    /\ call.stats.nodes_removed > 0
    /\ Len(nodes) + call.stats.nodes_removed = nextId
    /\ \E k \in 1..Len(connections) :
          connections[k].source # connections[k].ends[1]

\* C6: a link call whose endpoints are both in the graph succeeds, and
\* node[k] gives an outlet handle for every k >= 0
LinkOfMembersSucceeds ==
    /\ (call.op = "link" /\ IsMember(call.source) /\ IsMember(call.sink)
            /\ call.nonneg)
          => call.raised = ""
    /\ (call.op = "getitem" /\ call.nonneg) => call.raised = ""

\* C7: link raises NodeNotFoundError exactly when the source or the sink is
\* not one of the objects of the node list, and a link call that raises leaves
\* the node list and the connection list as they were
FailedLinkChangesNothing ==
    [][call'.op = "link" =>
          /\ (~(IsMember(call'.source) /\ IsMember(call'.sink)))
                <=> call'.raised = "NodeNotFoundError"
          /\ call'.raised # "" => (nodes' = nodes /\ connections' = connections)
      ]_vars

\* link has refused a node of another graph that looks equal to a node of this
\* graph
LookAlikeRefused ==
    /\ call.op = "link"
    /\ call.raised = "NodeNotFoundError"
    /\ \E f \in foreign :
          /\ f.id = call.source
          /\ \E i \in 1..Len(nodes) : Alike(f, nodes[i])

----------------------------------------------------------------------------
(* Chains of objects, for the passes of optimize *)

\* the inputs of Patcher.add when a chain is built
ChainChoices ==
    { <<<<"osc~", "440">>, None, None>>,
      <<<<"abs">>, None, None>>,
      <<<<"dac~">>, None, None>> }

\* p.add(text)
AddChain ==
    /\ Len(nodes) < MaxChain
    /\ nextId < MaxChain
    /\ \E ch \in ChainChoices :
          /\ nodes' = Append(nodes, AddObj(nextId, ch[1], ch[2], ch[3]))
          /\ call' = [op |-> "add"]
    /\ nextId' = nextId + 1
    /\ UNCHANGED <<connections, foreign>>

\* p.link(source, sink) from a node to a node added later, with the default
\* outlet 0 and inlet 0
LinkChain ==
    /\ Len(connections) < MaxChain - 1
    /\ \E i \in 1..Len(nodes), j \in 1..Len(nodes) :
          /\ i < j
          /\ LET r == link(nodes, connections, nodes[i], nodes[j], 0, 0)
             IN /\ connections' = r.connections
                /\ call' = [op |-> "link", handle |-> FALSE,
                            source |-> nodes[i].id, sink |-> nodes[j].id,
                            nonneg |-> TRUE, raised |-> r.raised]
    /\ UNCHANGED <<nodes, foreign, nextId>>

NextChain ==
    \/ AddChain
    \/ LinkChain
    \/ Optimize

SpecChain == Init /\ [][NextChain]_vars

\* the inlet reached from the pass-through node idx by following the single
\* outgoing connection of each pass-through node in P, at most fuel times
RECURSIVE ChainEnd(_, _, _, _)
ChainEnd(cs, P, idx, fuel) ==
    LET out == cs[CHOOSE k \in Outgoing(cs, idx) : TRUE]
    IN IF out.sink \in P /\ fuel > 0
       THEN ChainEnd(cs, P, out.sink, fuel - 1)
       ELSE [sink |-> out.sink, inlet_index |-> out.inlet_index]

\* the identities of the nodes of a node list
Ids(ns) == {ns[i].id : i \in 1..Len(ns)}

\* C4: when optimize is called, every outlet of a surviving node that reaches
\* an inlet of a surviving node through one qualifying pass-through node or a
\* chain of them is connected directly to that inlet after the call, and the
\* pass-through nodes are gone
CollapsePreservesConnectivity ==
    [][call'.op = "optimize" =>
          LET cs == Dedup(connections)
              P == PassThroughs(nodes, cs, call'.collapsible_objects)
          IN /\ \A idx \in P : nodes[idx + 1].id \notin Ids(nodes')
             /\ \A k \in 1..Len(cs) :
                   (cs[k].source \notin P /\ cs[k].sink \in P) =>
                      LET e == ChainEnd(cs, P, cs[k].sink, Len(nodes))
                      IN (/\ e.sink \notin P
                          /\ nodes[cs[k].source + 1].id \in Ids(nodes')
                          /\ nodes[e.sink + 1].id \in Ids(nodes')) =>
                            \E m \in 1..Len(connections') :
                               LET d == connections'[m]
                               IN /\ nodes'[d.source + 1].id = nodes[cs[k].source + 1].id
                                  /\ d.outlet_index = cs[k].outlet_index
                                  /\ nodes'[d.sink + 1].id = nodes[e.sink + 1].id
                                  /\ d.inlet_index = e.inlet_index
      ]_vars

----------------------------------------------------------------------------
(* Validation of connection lists, including lists edited directly *)

\* the inputs of Patcher.add for validation: an object the registry knows and
\* one it does not know (whose counts stay unset)
ValChoices ==
    { <<<<"abs">>, None, None>>,
      <<<<"foo">>, None, None>> }

\* p.add(text)
AddVal ==
    /\ Len(nodes) < MaxNodes
    /\ nextId < MaxNodes
    /\ \E ch \in ValChoices :
          /\ nodes' = Append(nodes, AddObj(nextId, ch[1], ch[2], ch[3]))
          /\ call' = [op |-> "add"]
    /\ nextId' = nextId + 1
    /\ UNCHANGED <<connections, foreign>>

\* p.connections.append(Connection(source, outlet_index, sink, inlet_index)):
\* the connection list is a public attribute; source and sink are indices of
\* existing nodes, the port indices are any of PortArgs
AppendConnection ==
    /\ Len(connections) < MaxEdits
    /\ \E source \in Indices(nodes), sink \in Indices(nodes),
          outlet_index \in PortArgs, inlet_index \in PortArgs :
          /\ connections' = Append(connections,
                Connection(source, outlet_index, sink, inlet_index,
                           <<nodes[source + 1].id, nodes[sink + 1].id>>))
          /\ call' = [op |-> "append"]
    /\ UNCHANGED <<nodes, foreign, nextId>>

\* p.validate_connections(check_cycles)
Validate ==
    /\ \E check_cycles \in BOOLEAN :
          LET r == validate_connections(nodes, connections, check_cycles)
          IN call' = [op |-> "validate", check_cycles |-> check_cycles,
                      raised |-> r.raised, found |-> r.found,
                      errors |-> r.errors, warnings |-> r.warnings]
    /\ UNCHANGED <<nodes, connections, foreign, nextId>>

NextVal ==
    \/ AddVal
    \/ AppendConnection
    \/ Validate

SpecVal == Init /\ [][NextVal]_vars

\* the connection has an outlet index out of the range of a source whose
\* num_outlets is set, or an inlet index out of the range of a sink whose
\* num_inlets is set
OutOfRange(c) ==
    LET source_node == nodes[c.source + 1]
        sink_node == nodes[c.sink + 1]
    IN \/ /\ source_node.num_outlets # None
          /\ (c.outlet_index < 0 \/ c.outlet_index >= source_node.num_outlets)
       \/ /\ sink_node.num_inlets # None
          /\ (c.inlet_index < 0 \/ c.inlet_index >= sink_node.num_inlets)

\* the positions of the out-of-range connections
Offending == {k \in 1..Len(connections) : OutOfRange(connections[k])}

\* C8: when N > 0 connections are out of range, validate_connections raises
\* one InvalidConnectionError whose count and whose number of listed items are
\* both N
ReportsOnePerOffendingConnection ==
    (call.op = "validate" /\ Offending # {}) =>
        /\ call.raised = "InvalidConnectionError"
        /\ call.found = Cardinality(Offending)
        /\ Len(call.errors) = Cardinality(Offending)

\* C9: validate_connections raises InvalidConnectionError exactly when some
\* connection is out of range on a node whose count is set, and returns an
\* empty list otherwise
RaisesIffOutOfRange ==
    call.op = "validate" =>
        /\ call.raised = "InvalidConnectionError" <=> Offending # {}
        /\ call.raised \in {"", "InvalidConnectionError"}
        /\ call.raised = "" => call.errors = << >>
        /\ \A i \in 1..Len(call.errors) :
              \E k \in Offending : call.errors[i].conn = Key(connections[k])

\* validate_connections has raised for a negative index while another
\* connection, with a large outlet index on a source whose count is unset,
\* is not among the items
NegativeFlaggedUnsetIgnored ==
    /\ call.op = "validate"
    /\ call.raised = "InvalidConnectionError"
    /\ \E k \in Offending :
          /\ connections[k].outlet_index < 0
          /\ connections[k].inlet_index = 0
    /\ \E m \in 1..Len(connections) :
          /\ m \notin Offending
          /\ connections[m].outlet_index > 0
          /\ nodes[connections[m].source + 1].num_outlets = None
          /\ \A i \in 1..Len(call.errors) :
                call.errors[i].conn # Key(connections[m])

\* C10: validate_connections raises, and lists the same violations, with
\* check_cycles=True as with check_cycles=False; cycles only give warnings
CheckCyclesChangesNoVerdict ==
    call.op = "validate" =>
        LET other == validate_connections(nodes, connections, ~call.check_cycles)
        IN /\ call.raised = other.raised
           /\ call.errors = other.errors
           /\ call.found = other.found
           /\ call.warnings > 0 => call.check_cycles
           /\ call.raised # "" <=> call.errors # << >>

\* validate_connections with check_cycles=True has warned of a cycle and
\* raised for a bounds violation in the same call
CycleWarnedAndViolationRaised ==
    /\ call.op = "validate"
    /\ call.check_cycles
    /\ call.warnings > 0
    /\ call.raised = "InvalidConnectionError"

----------------------------------------------------------------------------
(* Patcher.auto_layout, statement by statement: its local variables are kept
   in the call record while the call runs *)

\* the default arguments of auto_layout
margin == 50
row_spacing == 40
col_spacing == 120

\* outgoing[i] and incoming[i]
outgoing(cs, i) == {cs[k].sink : k \in {j \in DOMAIN cs : cs[j].source = i}}
incoming(cs, i) == {cs[k].source : k \in {j \in DOMAIN cs : cs[j].sink = i}}

\* dag_outgoing[i] and dag_incoming[j]
dag_outgoing(cs, back_edges, i) ==
    {j \in outgoing(cs, i) : <<i, j>> \notin back_edges}
dag_incoming(ns, cs, back_edges, j) ==
    {i \in Indices(ns) : j \in dag_outgoing(cs, back_edges, i)}

\* the call is between its first and its last statement
Running == call.op = "auto_layout" /\ call.pc # "done"

\* p.auto_layout(): the adjacency lists are built and the depth-first search
\* is about to start
AutoLayout ==
    /\ ~Running
    /\ \E align_columns \in BOOLEAN :
       call' = [op |-> "auto_layout", pc |-> "dfs", start |-> 0,
                align_columns |-> align_columns,
                stack |-> << >>, on_stack |-> {}, visited |-> {},
                back_edges |-> {},
                depth |-> [i \in Indices(nodes) |-> None],
                order |-> << >>, queue |-> << >>, pos |-> << >>]
    /\ UNCHANGED <<nodes, connections, foreign, nextId>>

\* one iteration of "for start in range(n)" up to the while loop
DfsStart ==
    /\ Running /\ call.pc = "dfs"
    /\ call.stack = << >>
    /\ call.start < Len(nodes)
    /\ call' = IF call.start \in call.visited \/ nodes[call.start + 1].hidden
               THEN [call EXCEPT !.start = @ + 1]
               ELSE [call EXCEPT !.start = @ + 1,
                                 !.stack = <<<<call.start, 0>>>>,
                                 !.on_stack = @ \cup {call.start}]
    /\ UNCHANGED <<nodes, connections, foreign, nextId>>

\* one iteration of "while stack"
DfsStep ==
    /\ Running /\ call.pc = "dfs"
    /\ call.stack # << >>
    /\ LET top == Len(call.stack)
           node_id == call.stack[top][1]
           idx == call.stack[top][2]
           neighbors == Sorted(outgoing(connections, node_id))
       IN call' =
            IF idx < Len(neighbors)
            THEN LET neighbor == neighbors[idx + 1]
                     advanced == [call.stack EXCEPT ![top] = <<node_id, idx + 1>>]
                 IN IF neighbor \in call.on_stack
                    THEN [call EXCEPT !.stack = advanced,
                                      !.back_edges = @ \cup {<<node_id, neighbor>>}]
                    ELSE IF neighbor \notin call.visited
                            /\ ~nodes[neighbor + 1].hidden
                    THEN [call EXCEPT !.stack = Append(advanced, <<neighbor, 0>>),
                                      !.on_stack = @ \cup {neighbor}]
                    ELSE [call EXCEPT !.stack = advanced]
            ELSE [call EXCEPT !.on_stack = @ \ {node_id},
                              !.visited = @ \cup {node_id},
                              !.stack = SubSeq(@, 1, top - 1)]
    /\ UNCHANGED <<nodes, connections, foreign, nextId>>

\* after the search: the DAG, the sources, and the first entries of the queue
BfsInit ==
    /\ Running /\ call.pc = "dfs"
    /\ call.stack = << >>
    /\ call.start = Len(nodes)
    /\ LET clear == {i \in Indices(nodes) :
                        /\ dag_incoming(nodes, connections, call.back_edges, i) = {}
                        /\ ~nodes[i + 1].hidden}
           sources == IF clear # {} THEN clear
                      ELSE {i \in Indices(nodes) : ~nodes[i + 1].hidden}
       IN call' = [call EXCEPT !.pc = "bfs",
                               !.depth = [i \in Indices(nodes) |->
                                             IF i \in sources THEN 0 ELSE None],
                               !.order = Sorted(sources),
                               !.queue = Sorted(sources)]
    /\ UNCHANGED <<nodes, connections, foreign, nextId>>

\* "for neighbor in dag_outgoing[current]" over the neighbours todo, on the
\* state st = [depth, order, queue]
RECURSIVE Relax(_, _, _)
Relax(todo, current, st) ==
    IF todo = << >> THEN st
    ELSE LET neighbor == Head(todo)
             new_depth == st.depth[current] + 1
         IN IF st.depth[neighbor] = None \/ st.depth[neighbor] < new_depth
            THEN Relax(Tail(todo), current,
                       [depth |-> [st.depth EXCEPT ![neighbor] = new_depth],
                        order |-> IF st.depth[neighbor] = None
                                  THEN Append(st.order, neighbor) ELSE st.order,
                        queue |-> Append(st.queue, neighbor)])
            ELSE Relax(Tail(todo), current, st)

\* one iteration of "while queue"; the model follows depths up to MaxDepth
BfsStep ==
    /\ Running /\ call.pc = "bfs"
    /\ call.queue # << >>
    /\ \A i \in Indices(nodes) : call.depth[i] <= MaxDepth
    /\ LET current == Head(call.queue)
           st == Relax(Sorted(dag_outgoing(connections, call.back_edges, current)),
                       current,
                       [depth |-> call.depth, order |-> call.order,
                        queue |-> Tail(call.queue)])
       IN call' = [call EXCEPT !.depth = st.depth, !.order = st.order,
                               !.queue = st.queue]
    /\ UNCHANGED <<nodes, connections, foreign, nextId>>

\* rows[d]: the nodes of depth d in the order their depth entries were made
RowOf(order, depth, d) == SelectIdx(order, LAMBDA k : depth[order[k]] = d, 1)

\* the 0-based position of x in the list row
PositionIn(row, x) == (CHOOSE i \in 1..Len(row) : row[i] = x) - 1

RECURSIVE SumPositions(_, _)
SumPositions(prev_row, parents) ==
    IF parents = {} THEN 0
    ELSE LET q == CHOOSE x \in parents : TRUE
         IN PositionIn(prev_row, q) + SumPositions(prev_row, parents \ {q})

\* parent_position: the mean as a fraction, or float("inf")
parent_position(cs, prev_row, node_idx) ==
    LET parents == {q \in incoming(cs, node_idx) : q \in Range(prev_row)}
    IN IF parents # {}
       THEN [inf |-> FALSE, num |-> SumPositions(prev_row, parents),
             den |-> Cardinality(parents)]
       ELSE [inf |-> TRUE, num |-> 0, den |-> 1]

\* a < b for two sort keys
KeyLess(a, b) ==
    IF a.inf THEN FALSE
    ELSE IF b.inf THEN TRUE
    ELSE a.num * b.den < b.num * a.den

\* list.sort(key=parent_position): a stable sort, by insertion of row[k..]
\* into the sorted list acc
RECURSIVE StableSort(_, _, _, _, _)
StableSort(row, k, acc, cs, prev_row) ==
    IF k > Len(row) THEN acc
    ELSE LET x == row[k]
             later == {i \in 1..Len(acc) :
                          KeyLess(parent_position(cs, prev_row, x),
                                  parent_position(cs, prev_row, acc[i]))}
             at == IF later = {} THEN Len(acc) + 1
                   ELSE CHOOSE i \in later : \A j \in later : i <= j
         IN StableSort(row, k + 1,
                       SubSeq(acc, 1, at - 1) \o <<x>> \o SubSeq(acc, at, Len(acc)),
                       cs, prev_row)

\* "for depth_idx in range(1, len(sorted_depths))"
RECURSIVE AlignRows(_, _, _, _)
AlignRows(rows, sorted_depths, depth_idx, cs) ==
    IF depth_idx >= Len(sorted_depths) THEN rows
    ELSE LET d == sorted_depths[depth_idx + 1]
             prev_d == sorted_depths[depth_idx]
         IN AlignRows([rows EXCEPT ![d] = StableSort(rows[d], 1, << >>, cs,
                                                     rows[prev_d])],
                      sorted_depths, depth_idx + 1, cs)

\* after the queue has emptied: depth 0 for the remaining nodes, the rows,
\* their alignment and the positions written to the nodes' parameters (kept
\* here in pos, by node index)
Place ==
    /\ Running /\ call.pc = "bfs"
    /\ call.queue = << >>
    /\ LET rest == {i \in Indices(nodes) :
                       call.depth[i] = None /\ ~nodes[i + 1].hidden}
           depth == [i \in Indices(nodes) |->
                        IF i \in rest THEN 0 ELSE call.depth[i]]
           order == call.order \o Sorted(rest)
           depths == {depth[i] : i \in Indices(nodes)} \ {None}
           sorted_depths == Sorted(depths)
           rows0 == [d \in depths |-> RowOf(order, depth, d)]
           rows == IF call.align_columns /\ Len(sorted_depths) > 1
                   THEN AlignRows(rows0, sorted_depths, 1, connections)
                   ELSE rows0
       IN call' = [call EXCEPT
                     !.pc = "done", !.depth = depth, !.order = order,
                     !.pos = [i \in {j \in Indices(nodes) : depth[j] # None} |->
                                <<margin + PositionIn(rows[depth[i]], i) * col_spacing,
                                  margin + depth[i] * row_spacing>>]]
    /\ UNCHANGED <<nodes, connections, foreign, nextId>>

\* p.add(text) of an object the registry does not know
AddLay ==
    /\ ~Running
    /\ Len(nodes) < MaxLayout
    /\ nextId < MaxLayout
    /\ nodes' = Append(nodes, AddObj(nextId, <<"foo">>, None, None))
    /\ call' = [op |-> "add"]
    /\ nextId' = nextId + 1
    /\ UNCHANGED <<connections, foreign>>

\* p.add_array(name, length): a hidden node
AddArray ==
    /\ ~Running
    /\ Len(nodes) < MaxLayout
    /\ nextId < MaxLayout
    /\ nodes' = Append(nodes, Array(nextId))
    /\ call' = [op |-> "add"]
    /\ nextId' = nextId + 1
    /\ UNCHANGED <<connections, foreign>>

\* p.link(source, sink, outlet, inlet), with index 0 on an object and index -1
\* on an array (an array has no ports, so link accepts no index >= 0 on it)
LinkLay ==
    /\ ~Running
    /\ Len(connections) < MaxEdits
    /\ \E source \in Range(nodes), sink \in Range(nodes) :
          LET outlet == IF source.hidden THEN 0 - 1 ELSE 0
              inlet == IF sink.hidden THEN 0 - 1 ELSE 0
              r == link(nodes, connections, source, sink, outlet, inlet)
          IN /\ connections' = r.connections
             /\ call' = [op |-> "link", handle |-> FALSE,
                         source |-> source.id, sink |-> sink.id,
                         nonneg |-> outlet >= 0 /\ inlet >= 0,
                         raised |-> r.raised]
    /\ UNCHANGED <<nodes, foreign, nextId>>

NextLayout ==
    \/ AddLay
    \/ AddArray
    \/ LinkLay
    \/ AutoLayout
    \/ DfsStart
    \/ DfsStep
    \/ BfsInit
    \/ BfsStep
    \/ Place

SpecLayout == Init /\ [][NextLayout]_vars

\* C3: auto_layout terminates on every graph.  The relaxation loop of a call
\* that terminates walks a graph without cycles, where no path has as many
\* edges as there are nodes; a depth that reaches the number of nodes has gone
\* round a cycle, and from then on every pass round it raises the depths
\* again, so the queue never empties
LayoutDepthBelowNodeCount ==
    call.op = "auto_layout" =>
        \A i \in Indices(nodes) : call.depth[i] < Len(nodes)

----------------------------------------------------------------------------
(* The tree model (ast.py) and the bridge from_builder / to_builder *)

\* Position and CanvasProperties; name is << >> for None and <<name>> otherwise
Position(x, y) == <<x, y>>

CanvasProperties(x, y, width, height, font_size, name, open_on_load) ==
    [x |-> x, y |-> y, width |-> width, height |-> height,
     font_size |-> font_size, name |-> name, open_on_load |-> open_on_load]

\* CanvasProperties() with the defaults of the dataclass
DefaultCanvas == CanvasProperties(0, 50, 1000, 600, 10, << >>, 0)

\* the elements of a PdPatch, all as records of one shape: position;
\* class_name and args of a PdObj; the field values of a widget, an atom, an
\* array or a coords element (the parameters of a graph node are not part of
\* the node records, so from_builder leaves them empty), the content
\* of a PdMsg or PdText and the name of a PdRestore in args; the canvas, the
\* elements and the restore (<< >> for None) of a PdSubpatch; the
\* (source_id, outlet_id, sink_id, inlet_id) of a PdConnect
Element(kind, position, class_name, args, canvas, elements, restore, conn) ==
    [kind |-> kind, position |-> position, class_name |-> class_name,
     args |-> args, canvas |-> canvas, elements |-> elements,
     restore |-> restore, conn |-> conn]

\* the position of a graph node: node positions are not part of the node
\* records of this model, every node is taken to sit at (0, 0)
NodePosition(node) == Position(0, 0)

PdObj(position, class_name, args) ==
    Element("PdObj", position, class_name, args, DefaultCanvas, << >>, << >>, << >>)
PdMsg(position, content) ==
    Element("PdMsg", position, "", content, DefaultCanvas, << >>, << >>, << >>)
PdText(position, content) ==
    Element("PdText", position, "", content, DefaultCanvas, << >>, << >>, << >>)
PdFloatAtom(position, fields) ==
    Element("PdFloatAtom", position, "", fields, DefaultCanvas, << >>, << >>, << >>)
PdArray(fields) ==
    Element("PdArray", Position(0, 0), "", fields, DefaultCanvas, << >>, << >>, << >>)
PdRestore(position, name) ==
    Element("PdRestore", position, "", name, DefaultCanvas, << >>, << >>, << >>)
PdSubpatch(canvas, elements, restore) ==
    Element("PdSubpatch", Position(0, 0), "", << >>, canvas, elements, restore, << >>)
PdConnect(source_id, outlet_id, sink_id, inlet_id) ==
    Element("PdConnect", Position(0, 0), "", << >>, DefaultCanvas, << >>, << >>,
            <<source_id, outlet_id, sink_id, inlet_id>>)

\* PdObj.text: the class name followed by the arguments
PdObjText(elem) == <<elem.class_name>> \o elem.args

\* Toggle.__init__: the parameters of a toggle made with the default arguments,
\* in the order Toggle.__str__ writes them and from_builder passes them
ToggleParameters ==
    <<15, 0, "empty", "empty", "empty", 17, 7, 0, 10, 0 - 262144, 0 - 1, 0 - 1,
      0, 1>>

\* from_builder: the elements of the tree for a patch, nodes first and then
\* one PdConnect for each connection (the sub-patches here are made with the
\* default graph_on_parent=False, so no PdCoords is added to their elements)
RECURSIVE from_builder(_)
from_builder(patch) ==
    [i \in 1..Len(patch.nodes) |->
        LET node == patch.nodes[i]
        IN CASE node.kind \in {"Obj", "Abstraction"} ->
                  PdObj(NodePosition(node),
                        IF Len(node.text) > 0 THEN Head(node.text) ELSE "",
                        IF Len(node.text) > 0 THEN Tail(node.text) ELSE << >>)
             [] node.kind = "Comment" -> PdText(NodePosition(node), node.text)
             [] node.kind = "Msg" -> PdMsg(NodePosition(node), node.text)
             [] node.kind = "Float" ->
                  PdFloatAtom(NodePosition(node),
                              IF "width" \in DOMAIN node
                              THEN <<node.width, <<node.lower_limit, 0>>,
                                     <<node.upper_limit, 0>>, 0, node.label,
                                     node.receive, node.send>>
                              ELSE << >>)
             [] node.kind = "Toggle" ->
                  Element("PdTgl", NodePosition(node), "", ToggleParameters,
                          DefaultCanvas, << >>, << >>, << >>)
             [] node.kind = "Array" -> PdArray(<< >>)
             [] node.kind = "Subpatch" ->
                  PdSubpatch(CanvasProperties(0, 0, 450, 300, 10, <<"(subpatch)">>, 0),
                             from_builder(node.src),
                             <<PdRestore(NodePosition(node), node.text)>>)]
    \o
    [k \in 1..Len(patch.connections) |->
        LET conn == patch.connections[k]
        IN PdConnect(conn.source, conn.outlet_index, conn.sink, conn.inlet_index)]

\* the element classes to_builder makes a GUI node or a Symbol for
GuiElements ==
    {"PdBng", "PdTgl", "PdNbx", "PdVsl", "PdHsl", "PdVradio", "PdHradio",
     "PdCnv", "PdVu", "PdSymbolAtom"}

\* the node class to_builder makes for a widget element or a symbol atom
GuiKind(kind) ==
    CASE kind = "PdBng" -> "Bang"
      [] kind = "PdTgl" -> "Toggle"
      [] kind = "PdNbx" -> "NumberBox"
      [] kind = "PdVsl" -> "VSlider"
      [] kind = "PdHsl" -> "HSlider"
      [] kind = "PdVradio" -> "VRadio"
      [] kind = "PdHradio" -> "HRadio"
      [] kind = "PdCnv" -> "Canvas"
      [] kind = "PdVu" -> "VU"
      [] kind = "PdSymbolAtom" -> "Symbol"

\* node_map[i] as Python evaluates it: a negative i counts from the end, and
\* an i below -len(node_map) raises IndexError
PyIndexError == 0 - 2
PyItem(node_map, i) ==
    IF i >= 0 THEN node_map[i + 1]
    ELSE IF i >= 0 - Len(node_map) THEN node_map[Len(node_map) + i + 1]
    ELSE PyIndexError

RECURSIVE to_builder(_)
RECURSIVE FirstPass(_, _, _)
RECURSIVE SecondPass(_, _, _)

\* the first pass of to_builder over elements[k..]: acc holds the exception
\* raised so far, patch.nodes and node_map (indices into patch.nodes, or None)
FirstPass(elements, k, acc) ==
    IF k > Len(elements) \/ acc.raised # "" THEN acc
    ELSE LET elem == elements[k]
             id == Len(acc.nodes)
             with(node) == [acc EXCEPT !.nodes = Append(@, node),
                                       !.node_map = Append(@, id)]
         IN FirstPass(elements, k + 1,
              CASE elem.kind = "PdObj" -> with(AddObj(id, PdObjText(elem), None, None))
                [] elem.kind = "PdMsg" -> with(Msg(id, elem.args))
                [] elem.kind = "PdFloatAtom" -> with(Float(id))
                [] elem.kind = "PdText" -> with(Comment(id, elem.args))
                [] elem.kind = "PdArray" -> with(Array(id))
                [] elem.kind = "PdSubpatch" ->
                     LET inner_patch == to_builder(elem.elements)
                     IN IF inner_patch.raised # ""
                        THEN [acc EXCEPT !.raised = inner_patch.raised]
                        ELSE with(AddSubpatch(id,
                                   IF elem.restore # << >>
                                   THEN elem.restore[1].args[1] ELSE "subpatch",
                                   [nodes |-> inner_patch.nodes,
                                    connections |-> inner_patch.connections],
                                   None, None))
                [] elem.kind \in GuiElements ->
                     with(Gui(id, GuiKind(elem.kind)))
                [] elem.kind = "PdConnect" -> acc
                [] OTHER -> [acc EXCEPT !.node_map = Append(@, None)])

\* the second pass over elements[k..]: each PdConnect is replayed with link
SecondPass(elements, k, acc) ==
    IF k > Len(elements) \/ acc.raised # "" THEN acc
    ELSE LET elem == elements[k]
         IN IF elem.kind # "PdConnect" THEN SecondPass(elements, k + 1, acc)
            ELSE LET source == IF elem.conn[1] < Len(acc.node_map)
                               THEN PyItem(acc.node_map, elem.conn[1]) ELSE None
                     sink == IF elem.conn[3] < Len(acc.node_map)
                             THEN PyItem(acc.node_map, elem.conn[3]) ELSE None
                 IN IF source = PyIndexError \/ sink = PyIndexError
                    THEN [acc EXCEPT !.raised = "IndexError"]
                    ELSE IF source # None /\ sink # None
                    THEN LET r == link(acc.nodes, acc.connections,
                                       acc.nodes[source + 1], acc.nodes[sink + 1],
                                       elem.conn[2], elem.conn[4])
                         IN SecondPass(elements, k + 1,
                                [acc EXCEPT !.raised = r.raised,
                                            !.connections = r.connections])
                    ELSE SecondPass(elements, k + 1, acc)

\* to_builder on the elements of a tree: the exception raised ("" for none)
\* and the new patch
to_builder(elements) ==
    LET first == FirstPass(elements, 1,
                    [raised |-> "", nodes |-> << >>, node_map |-> << >>,
                     connections |-> << >>])
        second == SecondPass(elements, 1, first)
    IN [raised |-> second.raised, nodes |-> second.nodes,
        connections |-> second.connections]


\* an inner patch with one inlet object connected to one outlet object
InOutPatch ==
    [nodes |-> <<AddObj(0, <<"inlet">>, None, None),
                 AddObj(1, <<"outlet">>, None, None)>>,
     connections |-> <<Connection(0, 0, 1, 0, <<0, 1>>)>>]

\* the inputs of Patcher.add_subpatch: src, num_inlets, num_outlets
SubpatchChoices ==
    { <<EmptyPatch, 1, 1>>, <<InOutPatch, None, None>> }

\* p.add_msg(text)
AddMsg ==
    /\ Len(nodes) < MaxNodes
    /\ nextId < MaxNodes
    /\ nodes' = Append(nodes, Msg(nextId, <<"hello">>))
    /\ call' = [op |-> "add"]
    /\ nextId' = nextId + 1
    /\ UNCHANGED <<connections, foreign>>

\* p.add_subpatch(name, src, num_inlets=..., num_outlets=...)
AddSub ==
    /\ Len(nodes) < MaxNodes
    /\ nextId < MaxNodes
    /\ \E ch \in SubpatchChoices :
          /\ nodes' = Append(nodes, AddSubpatch(nextId, "sub", ch[1], ch[2], ch[3]))
          /\ call' = [op |-> "add"]
    /\ nextId' = nextId + 1
    /\ UNCHANGED <<connections, foreign>>

\* to_builder(from_builder(p)): p itself is left as it is
RoundTrip ==
    /\ LET r == to_builder(from_builder([nodes |-> nodes,
                                         connections |-> connections]))
       IN call' = [op |-> "round_trip", raised |-> r.raised,
                   node_count |-> IF r.raised = "" THEN Len(r.nodes) ELSE None,
                   tuples |-> IF r.raised = ""
                              THEN [k \in 1..Len(r.connections) |->
                                       Key(r.connections[k])]
                              ELSE << >>]
    /\ UNCHANGED <<nodes, connections, foreign, nextId>>

NextBridge ==
    \/ Add
    \/ AddMsg
    \/ AddArray
    \/ AddSub
    \/ Link
    \/ RoundTrip

SpecBridge == Init /\ [][NextBridge]_vars

\* C1: for every graph built with the add methods and link,
\* to_builder(from_builder(G)) completes without error and gives a graph with
\* as many nodes and the same (source, outlet, sink, inlet) tuples as G
RoundTripPreservesGraph ==
    call.op = "round_trip" =>
        /\ call.raised = ""
        /\ call.node_count = Len(nodes)
        /\ call.tuples = [k \in 1..Len(connections) |-> Key(connections[k])]

\* ---------------------------------------------------------------------------
\* The text parser and the serializer (ast.py).  A text is taken after
\* _split_statements and _tokenize: a sequence of statements, each the
\* sequence of its tokens.  Tokens are strings; the numeric literals the
\* model knows are listed with their values.

\* decimal literals as str(int) writes them
IntLiterals ==
    { <<"0", 0>>, <<"1", 1>>, <<"2", 2>>, <<"5", 5>>, <<"7", 7>>, <<"8", 8>>,
      <<"10", 10>>, <<"12", 12>>, <<"14", 14>>, <<"15", 15>>, <<"17", 17>>,
      <<"20", 20>>, <<"50", 50>>, <<"60", 60>>, <<"100", 100>>,
      <<"120", 120>>, <<"128", 128>>, <<"250", 250>>, <<"256", 256>>,
      <<"300", 300>>, <<"450", 450>>, <<"600", 600>>, <<"1000", 1000>>,
      <<"-1", 0 - 1>>, <<"-2", 0 - 2>>,
      <<"-8", 0 - 8>>, <<"-9", 0 - 9>>, <<"-233017", 0 - 233017>>,
      <<"-262144", 0 - 262144>> }

\* literals int() accepts and str() never writes
SignedIntLiterals == { <<"+7", 7>> }

\* float literals as str(float) writes them; a float is <<m, e>> for m * 10^e
FloatLiterals ==
    { <<"0.0", <<0, 0>>>>, <<"1.0", <<1, 0>>>>, <<"7.0", <<7, 0>>>>,
      <<"0.5", <<5, 0 - 1>>>>, <<"127.0", <<127, 0>>>>,
      <<"1e+37", <<1, 37>>>>, <<"-1e+37", <<0 - 1, 37>>>> }

Lookup(table, s) == (CHOOSE p \in table : p[1] = s)[2]
Literal(table, v) == (CHOOSE p \in table : p[2] = v)[1]
Known(table, s) == \E p \in table : p[1] = s

_parse_int(s, default) ==
    IF Known(IntLiterals \cup SignedIntLiterals, s)
    THEN Lookup(IntLiterals \cup SignedIntLiterals, s)
    ELSE default

_parse_float(s, default) ==
    IF Known(FloatLiterals, s) THEN Lookup(FloatLiterals, s)
    ELSE IF Known(IntLiterals \cup SignedIntLiterals, s)
         THEN <<Lookup(IntLiterals \cup SignedIntLiterals, s), 0>>
         ELSE default

\* a field of an element: its type and the default of its parser
IntField(d) == [t |-> "int", d |-> d]
FloatField(m, e) == [t |-> "float", d |-> <<m, e>>]
StrField(d) == [t |-> "str", d |-> d]

\* the value of a field read from args[i], or its default when args is shorter
ParseField(f, args, i) ==
    IF i > Len(args) THEN f.d
    ELSE CASE f.t = "int" -> _parse_int(args[i], f.d)
           [] f.t = "float" -> _parse_float(args[i], f.d)
           [] f.t = "str" -> args[i]

ParseFields(schema, args) ==
    [i \in 1..Len(schema) |-> ParseField(schema[i], args, i)]

\* a field value inside an f-string
FormatField(f, v) ==
    CASE f.t = "int" -> Literal(IntLiterals, v)
      [] f.t = "float" -> Literal(FloatLiterals, v)
      [] f.t = "str" -> v

FormatFields(schema, values) ==
    [i \in 1..Len(schema) |-> FormatField(schema[i], values[i])]

\* Position.__str__
PositionStr(position) ==
    <<Literal(IntLiterals, position[1]), Literal(IntLiterals, position[2])>>

\* the fields _parse_obj reads for each GUI class, in argument order
Colors == <<IntField(0 - 262144), IntField(0 - 1), IntField(0 - 1)>>
SendReceiveLabel == <<StrField("empty"), StrField("empty"), StrField("empty")>>
SliderSchema(width, height, label_x, label_y) ==
    <<IntField(width), IntField(height), FloatField(0, 0), FloatField(127, 0),
      IntField(0), IntField(0)>> \o SendReceiveLabel \o
    <<IntField(label_x), IntField(label_y), IntField(0), IntField(10)>> \o
    Colors \o <<FloatField(0, 0), IntField(1)>>
RadioSchema ==
    <<IntField(15), IntField(0), IntField(0), IntField(8)>> \o
    SendReceiveLabel \o
    <<IntField(0), IntField(0 - 8), IntField(0), IntField(10)>> \o
    Colors \o <<IntField(0)>>

WidgetClasses ==
    {"bng", "tgl", "nbx", "vsl", "hsl", "vradio", "hradio", "cnv", "vu"}

WidgetSchema(class_name) ==
    CASE class_name = "bng" ->
           <<IntField(15), IntField(250), IntField(50), IntField(0)>> \o
           SendReceiveLabel \o
           <<IntField(17), IntField(7), IntField(0), IntField(10)>> \o Colors
      [] class_name = "tgl" ->
           <<IntField(15), IntField(0)>> \o SendReceiveLabel \o
           <<IntField(17), IntField(7), IntField(0), IntField(10)>> \o
           Colors \o <<IntField(0), IntField(0)>>
      [] class_name = "nbx" ->
           <<IntField(5), IntField(14), FloatField(0 - 1, 37),
             FloatField(1, 37), IntField(0), IntField(0)>> \o
           SendReceiveLabel \o
           <<IntField(0), IntField(0 - 8), IntField(0), IntField(10)>> \o
           Colors \o <<FloatField(0, 0), IntField(256)>>
      [] class_name = "vsl" -> SliderSchema(15, 128, 0, 0 - 9)
      [] class_name = "hsl" -> SliderSchema(128, 15, 0 - 2, 0 - 8)
      [] class_name \in {"vradio", "hradio"} -> RadioSchema
      [] class_name = "cnv" ->
           <<IntField(15), IntField(100), IntField(60)>> \o SendReceiveLabel \o
           <<IntField(20), IntField(12), IntField(0), IntField(14),
             IntField(0 - 233017), IntField(0 - 1)>>
      [] class_name = "vu" ->
           <<IntField(15), IntField(120), StrField("empty"), StrField("empty"),
             IntField(0 - 1), IntField(0 - 8), IntField(0), IntField(10),
             IntField(0 - 262144), IntField(0 - 1), IntField(1)>>

\* the number of arguments from which _parse_obj reads a class as its widget
WidgetThreshold(class_name) ==
    CASE class_name = "bng" -> 14
      [] class_name = "tgl" -> 15
      [] class_name \in {"nbx", "vsl", "hsl"} -> 18
      [] class_name \in {"vradio", "hradio"} -> 15
      [] class_name = "cnv" -> 13
      [] class_name = "vu" -> 12

\* what a widget's __str__ writes after its fields: the constant 0 of cnv and vu
WidgetTrailer(class_name) ==
    IF class_name \in {"cnv", "vu"} THEN <<"0">> ELSE << >>

WidgetKind(class_name) ==
    CASE class_name = "bng" -> "PdBng"
      [] class_name = "tgl" -> "PdTgl"
      [] class_name = "nbx" -> "PdNbx"
      [] class_name = "vsl" -> "PdVsl"
      [] class_name = "hsl" -> "PdHsl"
      [] class_name = "vradio" -> "PdVradio"
      [] class_name = "hradio" -> "PdHradio"
      [] class_name = "cnv" -> "PdCnv"
      [] class_name = "vu" -> "PdVu"

WidgetClassOf(kind) == CHOOSE c \in WidgetClasses : WidgetKind(c) = kind
WidgetKinds == {WidgetKind(c) : c \in WidgetClasses}


\* the fields of the elements that are neither objects nor widgets, read from
\* the tokens after the position (after the command for array and coords)
AtomSchema(width) ==
    <<IntField(width), FloatField(0, 0), FloatField(0, 0), IntField(0),
      StrField("-"), StrField("-"), StrField("-")>>
ArraySchema == <<StrField(""), IntField(0), StrField("float"), IntField(0)>>
CoordsSchema ==
    <<FloatField(0, 0), FloatField(0, 0), FloatField(0, 0), FloatField(0, 0),
      IntField(0), IntField(0), IntField(1), IntField(0), IntField(0),
      IntField(0)>>

\* tokens[i:] of the 0-based token list
From(tokens, i) == SubSeq(tokens, i + 1, Len(tokens))

TokenPosition(tokens) == Position(_parse_int(tokens[3], 0), _parse_int(tokens[4], 0))

Parsed(elem) == [raised |-> "", elem |-> elem]
ParseError == [raised |-> "ParseError", elem |-> PdConnect(0, 0, 0, 0)]

_parse_canvas(tokens) ==
    IF Len(tokens) < 6 THEN [raised |-> "ParseError", canvas |-> DefaultCanvas]
    ELSE [raised |-> "",
          canvas |->
            IF Len(tokens) >= 8
            THEN CanvasProperties(_parse_int(tokens[3], 0), _parse_int(tokens[4], 0),
                                  _parse_int(tokens[5], 0), _parse_int(tokens[6], 0),
                                  10, <<tokens[7]>>, _parse_int(tokens[8], 0))
            ELSE CanvasProperties(_parse_int(tokens[3], 0), _parse_int(tokens[4], 0),
                                  _parse_int(tokens[5], 0), _parse_int(tokens[6], 0),
                                  IF Len(tokens) > 6 THEN _parse_int(tokens[7], 0)
                                  ELSE 10,
                                  << >>, 0)]

_parse_obj(tokens) ==
    IF Len(tokens) < 5 THEN ParseError
    ELSE LET pos == TokenPosition(tokens)
             class_name == tokens[5]
             args == From(tokens, 5)
         IN IF class_name \in WidgetClasses
               /\ Len(args) >= WidgetThreshold(class_name)
            THEN Parsed(Element(WidgetKind(class_name), pos, "",
                                ParseFields(WidgetSchema(class_name), args),
                                DefaultCanvas, << >>, << >>, << >>))
            ELSE Parsed(PdObj(pos, class_name, args))

_parse_msg(tokens) ==
    IF Len(tokens) < 4 THEN ParseError
    ELSE Parsed(PdMsg(TokenPosition(tokens), From(tokens, 4)))

_parse_text(tokens) ==
    IF Len(tokens) < 4 THEN ParseError
    ELSE Parsed(PdText(TokenPosition(tokens), From(tokens, 4)))

_parse_floatatom(tokens) ==
    IF Len(tokens) < 4 THEN ParseError
    ELSE Parsed(PdFloatAtom(TokenPosition(tokens),
                            ParseFields(AtomSchema(5), From(tokens, 4))))

_parse_symbolatom(tokens) ==
    IF Len(tokens) < 4 THEN ParseError
    ELSE Parsed(Element("PdSymbolAtom", TokenPosition(tokens), "",
                        ParseFields(AtomSchema(10), From(tokens, 4)),
                        DefaultCanvas, << >>, << >>, << >>))

_parse_array(tokens) ==
    IF Len(tokens) < 5 THEN ParseError
    ELSE Parsed(PdArray(ParseFields(ArraySchema, From(tokens, 2))))

_parse_connect(tokens) ==
    IF Len(tokens) < 6 THEN ParseError
    ELSE Parsed(PdConnect(_parse_int(tokens[3], 0), _parse_int(tokens[4], 0),
                          _parse_int(tokens[5], 0), _parse_int(tokens[6], 0)))

_parse_coords(tokens) ==
    IF Len(tokens) < 9 THEN ParseError
    ELSE Parsed(Element("PdCoords", Position(0, 0), "",
                        ParseFields(CoordsSchema, From(tokens, 2)),
                        DefaultCanvas, << >>, << >>, << >>))

_parse_restore(tokens) ==
    IF Len(tokens) < 6 THEN ParseError
    ELSE Parsed(PdRestore(TokenPosition(tokens), From(tokens, 5)))

PdPatch(canvas, elements) == [canvas |-> canvas, elements |-> elements]

Rejected == [raised |-> "ParseError", patch |-> PdPatch(DefaultCanvas, << >>)]

\* the pair pushed first
StackBottom(patch_stack) == patch_stack[1]

\* patch_stack.pop(): the pair pushed last, and the stack without it
StackTop(patch_stack) == patch_stack[Len(patch_stack)]
StackRest(patch_stack) == SubSeq(patch_stack, 1, Len(patch_stack) - 1)

\* the loop of parse over the statements from the i-th on; current_canvas is
\* << >> for None, patch_stack holds the (canvas, elements) pairs pushed
RECURSIVE parse_from(_, _, _, _, _)
parse_from(statements, i, patch_stack, current_canvas, current_elements) ==
    IF i > Len(statements)
    THEN IF current_canvas = << >> THEN Rejected
         ELSE [raised |-> "", patch |-> PdPatch(current_canvas[1], current_elements)]
    ELSE
    LET tokens == statements[i]
        directive == IF Len(tokens) > 0 THEN tokens[1] ELSE ""
        cmd == IF Len(tokens) > 1 THEN tokens[2] ELSE ""
        skip == parse_from(statements, i + 1, patch_stack, current_canvas,
                           current_elements)
        append(r) ==
            IF r.raised # "" THEN Rejected
            ELSE parse_from(statements, i + 1, patch_stack, current_canvas,
                            Append(current_elements, r.elem))
    IN  IF tokens = << >> THEN skip
        ELSE IF directive = "#N" /\ cmd = "canvas"
        THEN LET c == _parse_canvas(tokens)
             IN IF c.raised # "" THEN Rejected
                ELSE IF current_canvas # << >>
                THEN parse_from(statements, i + 1,
                                Append(patch_stack,
                                       PdPatch(current_canvas[1], current_elements)),
                                <<c.canvas>>, << >>)
                ELSE parse_from(statements, i + 1, patch_stack, <<c.canvas>>,
                                current_elements)
        ELSE IF directive = "#X"
        THEN IF current_canvas = << >> THEN Rejected
             ELSE CASE cmd = "obj" -> append(_parse_obj(tokens))
                    [] cmd = "msg" -> append(_parse_msg(tokens))
                    [] cmd = "floatatom" -> append(_parse_floatatom(tokens))
                    [] cmd = "symbolatom" -> append(_parse_symbolatom(tokens))
                    [] cmd = "text" -> append(_parse_text(tokens))
                    [] cmd = "array" -> append(_parse_array(tokens))
                    [] cmd = "connect" -> append(_parse_connect(tokens))
                    [] cmd = "coords" -> append(_parse_coords(tokens))
                    [] cmd = "restore" ->
                         LET r == _parse_restore(tokens)
                         IN IF r.raised # "" \/ patch_stack = << >> THEN Rejected
                            ELSE LET top == StackTop(patch_stack)
                                 IN parse_from(statements, i + 1,
                                      StackRest(patch_stack),
                                      <<top.canvas>>,
                                      Append(top.elements,
                                             PdSubpatch(current_canvas[1],
                                                        current_elements,
                                                        <<r.elem>>)))
                    [] cmd = "pop" -> skip
                    [] OTHER ->
                         IF Len(tokens) >= 4
                         THEN append(Parsed(PdObj(TokenPosition(tokens), cmd,
                                                  From(tokens, 4))))
                         ELSE skip
        ELSE skip

parse(statements) ==
    IF statements = << >> THEN Rejected
    ELSE parse_from(statements, 1, << >>, << >>, << >>)


\* CanvasProperties.__str__ behind "#N canvas"
CanvasStatement(canvas) ==
    <<"#N", "canvas", Literal(IntLiterals, canvas.x), Literal(IntLiterals, canvas.y),
      Literal(IntLiterals, canvas.width), Literal(IntLiterals, canvas.height)>> \o
    (IF canvas.name # << >>
     THEN <<canvas.name[1], Literal(IntLiterals, canvas.open_on_load)>>
     ELSE <<Literal(IntLiterals, canvas.font_size)>>)

\* __str__ of an element that is not a subpatch, as the tokens of its statement
ElementStatement(elem) ==
    CASE elem.kind = "PdObj" ->
           <<"#X", "obj">> \o PositionStr(elem.position) \o
           <<elem.class_name>> \o elem.args
      [] elem.kind \in WidgetKinds ->
           LET class_name == WidgetClassOf(elem.kind)
           IN <<"#X", "obj">> \o PositionStr(elem.position) \o <<class_name>> \o
              FormatFields(WidgetSchema(class_name), elem.args) \o
              WidgetTrailer(class_name)
      [] elem.kind = "PdMsg" ->
           <<"#X", "msg">> \o PositionStr(elem.position) \o elem.args
      [] elem.kind = "PdText" ->
           <<"#X", "text">> \o PositionStr(elem.position) \o elem.args
      [] elem.kind = "PdFloatAtom" ->
           <<"#X", "floatatom">> \o PositionStr(elem.position) \o
           FormatFields(AtomSchema(5), elem.args)
      [] elem.kind = "PdSymbolAtom" ->
           <<"#X", "symbolatom">> \o PositionStr(elem.position) \o
           FormatFields(AtomSchema(10), elem.args)
      [] elem.kind = "PdArray" ->
           <<"#X", "array">> \o FormatFields(ArraySchema, elem.args)
      [] elem.kind = "PdConnect" ->
           <<"#X", "connect">> \o
           [k \in 1..4 |-> Literal(IntLiterals, elem.conn[k])]
      [] elem.kind = "PdCoords" ->
           <<"#X", "coords">> \o FormatFields(CoordsSchema, elem.args)
      [] elem.kind = "PdRestore" ->
           <<"#X", "restore">> \o PositionStr(elem.position) \o <<"pd">> \o
           elem.args

RECURSIVE SerializeElements(_)
\* the lines serialize and _serialize_subpatch write for a list of elements
SerializeElements(elements) ==
    IF elements = << >> THEN << >>
    ELSE LET elem == Head(elements)
         IN (IF elem.kind = "PdSubpatch"
             THEN <<CanvasStatement(elem.canvas)>> \o
                  SerializeElements(elem.elements) \o
                  (IF elem.restore # << >>
                   THEN <<ElementStatement(elem.restore[1])>> ELSE << >>)
             ELSE <<ElementStatement(elem)>>) \o
            SerializeElements(Tail(elements))

serialize(patch) ==
    <<CanvasStatement(patch.canvas)>> \o SerializeElements(patch.elements)

\* equality of two element lists, and of two trees, as the dataclasses
\* compare: kind first, then every field, then the nested elements
RECURSIVE SameElements(_, _)
SameElements(es, fs) ==
    /\ Len(es) = Len(fs)
    /\ \A k \in 1..Len(es) :
          /\ es[k].kind = fs[k].kind
          /\ es[k].position = fs[k].position
          /\ es[k].class_name = fs[k].class_name
          /\ es[k].args = fs[k].args
          /\ es[k].canvas = fs[k].canvas
          /\ es[k].restore = fs[k].restore
          /\ es[k].conn = fs[k].conn
          /\ SameElements(es[k].elements, fs[k].elements)

SameTree(p, q) == p.canvas = q.canvas /\ SameElements(p.elements, q.elements)


\* the statements a text is written from: the canvas forms, objects, every
\* GUI class with one argument fewer than, exactly and one more than its
\* threshold, the other commands in a complete and a short form, commands the
\* parser does not know, and the empty statement
Fillers == {"7", "x", "0.5"}

Fill(n, token) == [k \in 1..n |-> token]

CanvasStatements ==
    { <<"#N", "canvas", "0", "0", "450", "300", "10">>,
      <<"#N", "canvas", "0", "0", "450", "300", "sub", "1">>,
      <<"#N", "canvas", "0", "0", "450", "300">>,
      <<"#N", "canvas", "0", "0", "450">> }

WidgetStatements ==
    { <<"#X", "obj", "10", "10", c>> \o Fill(WidgetThreshold(c) + d, t) :
        c \in WidgetClasses, d \in {0 - 1, 0, 1}, t \in Fillers }

OtherStatements ==
    { <<"#X", "obj", "+7", "x", "osc~", "440">>,
      <<"#X", "obj", "10", "10">>,
      <<"#X", "msg", "10", "10", "bang", "+7">>,
      <<"#X", "msg", "10", "10">>,
      <<"#X", "text", "10", "10", "hello">>,
      <<"#X", "floatatom", "10", "10">>,
      <<"#X", "floatatom", "10", "10", "5", "0", "7", "0", "-", "-", "-">>,
      <<"#X", "symbolatom", "10", "10", "x">>,
      <<"#X", "array", "a", "10", "float", "0">>,
      <<"#X", "array", "a", "10">>,
      <<"#X", "connect", "0", "0", "1", "0">>,
      <<"#X", "connect", "+7", "x", "1", "0">>,
      <<"#X", "connect", "0", "0", "1">>,
      <<"#X", "coords", "0", "1", "1", "0", "100", "60", "1">>,
      <<"#X", "coords", "0", "1", "1", "0", "100", "60">>,
      <<"#X", "restore", "10", "10", "pd", "sub">>,
      <<"#X", "restore", "10", "10", "graph", "my", "sub">>,
      <<"#X", "restore", "10", "10", "pd">>,
      <<"#X", "pop">>,
      <<"#X", "declare", "-path", "lib">>,
      <<"#X", "declare">>,
      <<"#X", "bng", "1", "2">> \o Fill(14, "7"),
      <<"#A", "0", "1", "2">>,
      << >> }

Statements == CanvasStatements \cup WidgetStatements \cup OtherStatements

\* a text is written statement by statement; the first is a canvas line, an
\* object or the empty statement
Write ==
    /\ call.op \in {NoCall.op, "text"}
    /\ LET text == IF call.op = "text" THEN call.text ELSE << >>
       IN /\ Len(text) < MaxStatements
          /\ \E stmt \in Statements :
                /\ text = << >> =>
                     stmt \in CanvasStatements
                              \cup {<<"#X", "obj", "+7", "x", "osc~", "440">>, << >>}
                /\ call' = [op |-> "text", text |-> Append(text, stmt)]
    /\ UNCHANGED <<nodes, connections, foreign, nextId>>

Parse ==
    /\ call.op \in {NoCall.op, "text"}
    /\ LET text == IF call.op = "text" THEN call.text ELSE << >>
           r == parse(text)
       IN call' = [op |-> "parse", source |-> text, raised |-> r.raised,
                   patch |-> r.patch]
    /\ UNCHANGED <<nodes, connections, foreign, nextId>>

Serialize ==
    /\ call.op = "parse"
    /\ call.raised = ""
    /\ call' = [op |-> "serialize", source |-> call.source,
                patch |-> call.patch, text |-> serialize(call.patch)]
    /\ UNCHANGED <<nodes, connections, foreign, nextId>>

Reparse ==
    /\ call.op = "serialize"
    /\ LET r == parse(call.text)
       IN call' = [op |-> "reparse", source |-> call.source,
                   patch |-> call.patch, raised |-> r.raised,
                   again |-> r.patch]
    /\ UNCHANGED <<nodes, connections, foreign, nextId>>

NextParse ==
    \/ Write
    \/ Parse
    \/ Serialize
    \/ Reparse

SpecParse == Init /\ [][NextParse]_vars

\* C2: for every text that parse accepts, parse(serialize(parse(text))) is
\* accepted and has the same sequence of element kinds, the same field values
\* for each element and the same canvas nesting as parse(text)
ParseSerializeParseSame ==
    call.op = "reparse" =>
        /\ call.raised = ""
        /\ SameTree(call.patch, call.again)


\* ---------------------------------------------------------------------------
\* Nested canvases: texts of canvas lines, objects and restore lines

NestStatements ==
    { <<"#N", "canvas", "0", "0", "450", "300", "10">>,
      <<"#N", "canvas", "0", "0", "450", "300", "sub", "0">>,
      <<"#X", "obj", "10", "10", "a">>,
      <<"#X", "obj", "10", "10", "b">>,
      <<"#X", "restore", "10", "10", "pd", "sub">> }

WriteNest ==
    /\ call.op \in {NoCall.op, "text"}
    /\ LET text == IF call.op = "text" THEN call.text ELSE << >>
       IN /\ Len(text) < MaxNest
          /\ \E stmt \in NestStatements :
                call' = [op |-> "text", text |-> Append(text, stmt)]
    /\ UNCHANGED <<nodes, connections, foreign, nextId>>

NextNest ==
    \/ WriteNest
    \/ Parse

SpecNest == Init /\ [][NextNest]_vars

IsCanvas(stmt) == stmt[2] = "canvas"
IsRestore(stmt) == stmt[2] = "restore"

\* the number of canvases open after the first k statements of a text
OpenAfter(text, k) ==
    Cardinality({j \in 1..k : IsCanvas(text[j])})
    - Cardinality({j \in 1..k : IsRestore(text[j])})

\* some statement is an element before any canvas line
ElementBeforeCanvas(text) ==
    \E k \in 1..Len(text) : ~IsCanvas(text[k]) /\ OpenAfter(text, k - 1) = 0

\* some restore stands where no nested canvas is open
RestoreUnmatched(text) ==
    \E k \in 1..Len(text) : IsRestore(text[k]) /\ OpenAfter(text, k - 1) <= 1

\* the text opens a root canvas, closes every nested canvas it opens and
\* closes nothing else
Balanced(text) ==
    /\ Len(text) > 0
    /\ ~ElementBeforeCanvas(text)
    /\ ~RestoreUnmatched(text)
    /\ OpenAfter(text, Len(text)) = 1

\* a statement as a bracket or a leaf
Tag(stmt) ==
    IF IsCanvas(stmt) THEN <<"(", _parse_canvas(stmt).canvas>>
    ELSE IF IsRestore(stmt) THEN <<")", From(stmt, 5)>>
    ELSE <<"obj", stmt[5]>>

Tags(text) == [k \in 1..Len(text) |-> Tag(text[k])]

\* the elements of a tree in order, a sub-canvas as a bracketed group
RECURSIVE Flatten(_)
Flatten(elements) ==
    IF elements = << >> THEN << >>
    ELSE LET elem == Head(elements)
         IN (IF elem.kind = "PdSubpatch"
             THEN <<<<"(", elem.canvas>>>> \o Flatten(elem.elements) \o
                  <<<<")", elem.restore[1].args>>>>
             ELSE <<<<"obj", elem.class_name>>>>) \o
            Flatten(Tail(elements))

\* C11: in parse, every restore closes the most recently opened canvas that is
\* still open: the elements accumulated since that canvas line become one
\* nested sub-canvas element appended to the enclosing canvas's elements, later
\* elements go to the enclosing canvas (so the tree, read in order with each
\* sub-canvas as a bracketed group, is the text), and a restore with no nested
\* canvas open raises ParseError
RestoreClosesInnermostCanvas ==
    call.op = "parse" =>
        /\ RestoreUnmatched(call.source) => call.raised = "ParseError"
        /\ Balanced(call.source) =>
              /\ call.raised = ""
              /\ call.patch.canvas = _parse_canvas(call.source[1]).canvas
              /\ Flatten(call.patch.elements) = Tags(Tail(call.source))

\* a text with two levels of nesting and an element after a restore was parsed
NestedTwiceParsed ==
    /\ call.op = "parse"
    /\ Balanced(call.source)
    /\ \E k \in 1..Len(call.source) : OpenAfter(call.source, k) = 3
    /\ \E k \in 2..Len(call.source) :
          IsRestore(call.source[k - 1]) /\ Tag(call.source[k])[1] = "obj"

\* C12: when the input ends while nested canvases are still open, parse does
\* not fail and returns a tree whose root canvas is the first canvas opened and
\* whose elements include everything declared directly in that root canvas
UnterminatedKeepsRoot ==
    call.op = "parse"
    /\ Len(call.source) > 0
    /\ ~ElementBeforeCanvas(call.source)
    /\ ~RestoreUnmatched(call.source)
    /\ OpenAfter(call.source, Len(call.source)) > 1
    =>  /\ call.raised = ""
        /\ call.patch.canvas = _parse_canvas(call.source[1]).canvas
        /\ \A k \in 2..Len(call.source) :
              OpenAfter(call.source, k) = 1 /\ Tag(call.source[k])[1] = "obj"
              => \E e \in 1..Len(call.patch.elements) :
                    /\ call.patch.elements[e].kind = "PdObj"
                    /\ call.patch.elements[e].class_name = call.source[k][5]


\* ---------------------------------------------------------------------------
\* Cycle detection on graphs of up to MaxCycleNodes nodes

\* the node indices connections are made between
LinkEnds == {0, 1, 8}

\* p.add('foo')
AddCyc ==
    /\ Len(nodes) < MaxCycleNodes
    /\ nodes' = Append(nodes, AddObj(nextId, <<"foo">>, None, None))
    /\ nextId' = nextId + 1
    /\ call' = [op |-> "add"]
    /\ UNCHANGED <<connections, foreign>>

\* p.link(source, sink)
LinkCyc ==
    /\ Len(connections) < MaxCycleConns
    /\ \E i \in LinkEnds \cap Indices(nodes), j \in LinkEnds \cap Indices(nodes) :
          LET r == link(nodes, connections, nodes[i + 1], nodes[j + 1], 0, 0)
          IN /\ connections' = r.connections
             /\ call' = [op |-> "link"]
    /\ UNCHANGED <<nodes, foreign, nextId>>

\* p.detect_cycles()
DetectCycles ==
    /\ call' = [op |-> "detect_cycles", cycles |-> detect_cycles(nodes, connections)]
    /\ UNCHANGED <<nodes, connections, foreign, nextId>>

NextCycles ==
    \/ AddCyc
    \/ LinkCyc
    \/ DetectCycles

SpecCycles == Init /\ [][NextCycles]_vars

\* the nodes one connection away from a node of S
Successors(S) == {connections[k].sink : k \in {j \in DOMAIN connections :
                                                 connections[j].source \in S}}

\* the nodes reached from S by following connections
RECURSIVE Closure(_)
Closure(S) ==
    LET T == S \cup Successors(S)
    IN IF T = S THEN S ELSE Closure(T)

\* the connection graph has a directed cycle (a self-loop is one)
HasCycle == \E i \in Indices(nodes) : i \in Closure(Successors({i}))

\* the list starts and ends with the same node and each consecutive pair is
\* joined by a connection
RealCycle(c) ==
    /\ Len(c) >= 2
    /\ c[1] = c[Len(c)]
    /\ \A k \in 1..(Len(c) - 1) : c[k + 1] \in Successors({c[k]})

\* C13: every list returned by detect_cycles is a real cycle of the connection
\* graph, and the result is empty exactly when the graph has no directed
\* cycle, a self-loop counting as a cycle
DetectedCyclesAreReal ==
    call.op = "detect_cycles" =>
        /\ \A k \in 1..Len(call.cycles) : RealCycle(call.cycles[k])
        /\ call.cycles = << >> <=> ~HasCycle

\* a self-loop and a cycle through three nodes were both reported
SelfLoopAndTriangleReported ==
    /\ call.op = "detect_cycles"
    /\ \E k \in 1..Len(call.cycles) : Len(call.cycles[k]) = 2
    /\ \E k \in 1..Len(call.cycles) : Len(call.cycles[k]) = 4

\* the sinks each node is connected to, in ascending index order
SortedAdjacency(ns, cs) ==
    [i \in Indices(ns) |-> Sorted({cs[k].sink : k \in {j \in DOMAIN cs :
                                                         cs[j].source = i}})]

\* C14: detect_cycles visits each node's neighbours in ascending index order:
\* it returns the cycles, in the order, of the search that does
NeighboursVisitedAscending ==
    call.op = "detect_cycles" =>
        call.cycles =
            detect_from(SortedAdjacency(nodes, connections), 0, Len(nodes),
                        [visited |-> {}, rec_stack |-> {}, path |-> << >>,
                         cycles |-> << >>]).cycles


\* ---------------------------------------------------------------------------
\* From a text to a tree, to a graph and back to a tree

TreeCanvas == <<"#N", "canvas", "0", "0", "450", "300", "10">>

TreeStatements ==
    { <<"#X", "obj", "10", "10", "foo">>,
      <<"#X", "obj", "10", "10", "foo", "$1">>,
      <<"#X", "obj", "10", "10", "foo", "\\$1">>,
      <<"#X", "msg", "10", "10", "bang">>,
      <<"#X", "msg", "10", "10", "a", "\\,", "b">>,
      <<"#X", "coords", "0", "1", "1", "0", "100", "60", "1">>,
      <<"#X", "connect", "0", "0", "1", "0">>,
      <<"#X", "connect", "1", "0", "0", "0">>,
      <<"#X", "connect", "0", "0", "2", "0">>,
      <<"#X", "connect", "-1", "0", "0", "0">>,
      <<"#X", "connect", "0", "0", "-9", "0">>,
      <<"#X", "connect", "5", "0", "0", "0">>,
      <<"#X", "obj", "10", "10", "osc~", "440">>,
      <<"#X", "connect", "0", "1", "1", "0">> }

\* a text is written statement by statement after its canvas line
WriteTree ==
    /\ call.op \in {NoCall.op, "text"}
    /\ LET text == IF call.op = "text" THEN call.text ELSE << >>
       IN /\ Len(text) < MaxTree
          /\ \E stmt \in TreeStatements \cup {TreeCanvas} :
                /\ text = << >> <=> stmt = TreeCanvas
                /\ call' = [op |-> "text", text |-> Append(text, stmt)]
    /\ UNCHANGED <<nodes, connections, foreign, nextId>>

\* to_builder(tree) for the tree parse returned
ToBuilder ==
    /\ call.op = "parse"
    /\ call.raised = ""
    /\ LET r == to_builder(call.patch.elements)
       IN call' = [op |-> "to_builder", patch |-> call.patch, raised |-> r.raised,
                   nodes |-> r.nodes, connections |-> r.connections]
    /\ UNCHANGED <<nodes, connections, foreign, nextId>>

\* from_builder(graph) for the graph to_builder returned
FromBuilder ==
    /\ call.op = "to_builder"
    /\ call.raised = ""
    /\ call' = [op |-> "from_builder", patch |-> call.patch,
                again |-> from_builder([nodes |-> call.nodes,
                                        connections |-> call.connections])]
    /\ UNCHANGED <<nodes, connections, foreign, nextId>>

NextTree ==
    \/ WriteTree
    \/ Parse
    \/ ToBuilder
    \/ FromBuilder

SpecTree == Init /\ [][NextTree]_vars

\* the connection elements of a list of elements, and the elements that are
\* neither connections nor directives, both in declaration order
ConnectElements(elements) ==
    SelectIdx(elements, LAMBDA k : elements[k].kind = "PdConnect", 1)
Addressable(elements) ==
    SelectIdx(elements,
              LAMBDA k : elements[k].kind \notin {"PdConnect", "PdCoords"}, 1)

\* both endpoint indices of a connection element are in 0..(n - 1)
EndsInRange(elem, n) ==
    /\ elem.conn[1] >= 0 /\ elem.conn[1] < n
    /\ elem.conn[3] >= 0 /\ elem.conn[3] < n

\* the (source, outlet, sink, inlet) tuples of the connection elements with
\* both endpoints in range
InRangeTuples(elements) ==
    LET cs == ConnectElements(elements)
        n == Len(Addressable(elements))
    IN [k \in 1..Len(SelectIdx(cs, LAMBDA j : EndsInRange(cs[j], n), 1)) |->
           SelectIdx(cs, LAMBDA j : EndsInRange(cs[j], n), 1)[k].conn]

\* C15: for every connection element whose source or sink index is out of
\* range (negative, or not less than the number of addressable elements),
\* to_builder creates no connection and raises no error, and every other
\* connection element is still turned into a connection (stated for trees
\* without directive elements, where every element but a connection is
\* addressable, and for calls in which link refuses no port)
OutOfRangeConnectSkipped ==
    (/\ call.op = "to_builder"
     /\ call.raised # "PdConnectionError"
     /\ \A k \in 1..Len(call.patch.elements) :
           call.patch.elements[k].kind # "PdCoords")
    =>  /\ call.raised = ""
        /\ [k \in 1..Len(call.connections) |-> Key(call.connections[k])]
              = InRangeTuples(call.patch.elements)

\* C16: to_builder resolves a connection's index k to the node built from the
\* k-th element that is neither a connection nor a directive, counting from 0:
\* when every connection element is in range, the connections made are the
\* elements' own tuples and the nodes are the addressable elements in order
\* (stated for calls in which link refuses no port)
IndexCountsOnlyAddressable ==
    (/\ call.op = "to_builder"
     /\ call.raised # "PdConnectionError"
     /\ \A k \in 1..Len(call.patch.elements) :
           (call.patch.elements[k].kind = "PdConnect")
           => EndsInRange(call.patch.elements[k],
                          Len(Addressable(call.patch.elements))))
    =>  /\ call.raised = ""
        /\ Len(call.nodes) = Len(Addressable(call.patch.elements))
        /\ [k \in 1..Len(call.connections) |-> Key(call.connections[k])]
              = InRangeTuples(call.patch.elements)

\* the text tokens of the objects and message boxes of a list of elements
Texts(elements) ==
    LET es == SelectIdx(elements,
                        LAMBDA k : elements[k].kind \in {"PdObj", "PdMsg"}, 1)
    IN [k \in 1..Len(es) |->
           IF es[k].kind = "PdObj" THEN <<"obj">> \o PdObjText(es[k])
           ELSE <<"msg">> \o es[k].args]

\* C17: for every tree T produced by parse, from_builder(to_builder(T)) has
\* objects and message boxes with exactly the same text tokens as T
TextSurvivesGraph ==
    call.op = "from_builder" => Texts(call.again) = Texts(call.patch.elements)


----------------------------------------------------------------------------
(* The statistics optimize returns *)

\* C18: connections_removed counts only the connections dropped because they
\* referenced a removed node, duplicates being counted in duplicates_removed
\* only: a call that removes no node reports no connection removed
ConnectionsRemovedNeedsRemovedNode ==
    (call.op = "optimize" /\ call.stats.nodes_removed = 0)
    => call.stats.connections_removed = 0

\* C19: when optimize is called twice in a row with the same arguments, the
\* second call removes 0 duplicate connections
SecondOptimizeFindsNoDuplicate ==
    [][(/\ call.op = "optimize"
        /\ call'.op = "optimize"
        /\ call'.recursive = call.recursive
        /\ call'.collapsible_objects = call.collapsible_objects)
       => call'.stats.duplicates_removed = 0]_vars


----------------------------------------------------------------------------
(* Unused element removal *)

\* a node whose __init__ puts a receive and a send name among its parameters
\* (Float, Symbol and the GUI classes)
Named(node, receive, send) ==
    [id |-> node.id, kind |-> node.kind, text |-> node.text,
     num_inlets |-> node.num_inlets, num_outlets |-> node.num_outlets,
     hidden |-> node.hidden, src |-> node.src,
     receive |-> receive, send |-> send]

\* Abstraction.__init__: an Obj with the path of its file
Abstraction(id, text, num_inlets, num_outlets) ==
    [Obj(id, text, num_inlets, num_outlets) EXCEPT !.kind = "Abstraction"]

\* the nodes a caller adds before optimize
PruneChoices ==
    {"obj", "abs", "msg", "comment", "float", "float_send", "symbol", "bng",
     "bng_receive", "array", "subpatch", "abstraction"}

PruneNode(id, ch) ==
    CASE ch = "obj"         -> AddObj(id, <<"foo">>, None, None)
      [] ch = "abs"         -> AddObj(id, <<"abs">>, None, None)
      [] ch = "msg"         -> Msg(id, <<"bang">>)
      [] ch = "comment"     -> Comment(id, <<"note">>)
      [] ch = "float"       -> Named(Float(id), "-", "-")
      [] ch = "float_send"  -> Named(Float(id), "-", "out")
      [] ch = "symbol"      -> Named(Gui(id, "Symbol"), "-", "-")
      [] ch = "bng"         -> Named(Gui(id, "Bang"), "empty", "empty")
      [] ch = "bng_receive" -> Named(Gui(id, "Bang"), "in", "empty")
      [] ch = "array"       -> Array(id)
      [] ch = "subpatch"    -> AddSubpatch(id, "sub", EmptyPatch, None, None)
      [] ch = "abstraction" -> Abstraction(id, <<"abs">>, 1, 1)

\* p.add(...), p.add_msg(...), p.add_comment(...) and the like
AddPrune ==
    /\ Len(nodes) < MaxPrune
    /\ nextId < MaxPrune
    /\ \E ch \in PruneChoices :
          /\ nodes' = Append(nodes, PruneNode(nextId, ch))
          /\ call' = [op |-> "add"]
    /\ nextId' = nextId + 1
    /\ UNCHANGED <<connections, foreign>>

\* p.link(source, sink) with the default outlet 0 and inlet 0
LinkPrune ==
    /\ Len(connections) < MaxPruneConns
    /\ \E i \in 1..Len(nodes), j \in 1..Len(nodes) :
          LET r == link(nodes, connections, nodes[i], nodes[j], 0, 0)
          IN /\ connections' = r.connections
             /\ call' = [op |-> "link", handle |-> FALSE,
                         source |-> nodes[i].id, sink |-> nodes[j].id,
                         nonneg |-> TRUE, raised |-> r.raised]
    /\ UNCHANGED <<nodes, foreign, nextId>>

NextPrune ==
    \/ AddPrune
    \/ LinkPrune
    \/ Optimize

SpecPrune == Init /\ [][NextPrune]_vars

\* the kinds optimize is said never to remove: comment, sub-graph,
\* abstraction, GUI widget, array, message box, numeric or symbol atom
ProtectedKinds ==
    {"Comment", "Subpatch", "Abstraction", "Array", "Msg", "Float", "Symbol"}
    \cup {"Bang", "Toggle", "NumberBox", "VSlider", "HSlider", "VRadio",
          "HRadio", "Canvas", "VU"}

\* the node at index idx is an end of some connection
HasConnection(idx) ==
    \E k \in 1..Len(connections) :
        connections[k].source = idx \/ connections[k].sink = idx

\* the node has a send or a receive name that is in use
ActiveName(node) ==
    \/ "send" \in DOMAIN node /\ node.send \notin {"empty", "-", ""}
    \/ "receive" \in DOMAIN node /\ node.receive \notin {"empty", "-", ""}

\* C20: optimize removes a node that was not collapsed only if the node has no
\* connection at all, is not of a protected kind and has no active send or
\* receive name; every other node that was not collapsed is still in the
\* graph after the call
PruneRemovesOnlyUnusedObjects ==
    [][call'.op = "optimize" =>
          \A idx \in Indices(nodes) :
             (/\ \A j \in 1..Len(nodes') : nodes'[j].id # nodes[idx + 1].id
              /\ idx \notin PassThroughs(nodes, Dedup(connections),
                                         call'.collapsible_objects))
             => /\ ~HasConnection(idx)
                /\ nodes[idx + 1].kind \notin ProtectedKinds
                /\ ~ActiveName(nodes[idx + 1])
      ]_vars

\* optimize has removed an unconnected object and kept an unconnected comment
\* and an unconnected number atom with a send name
UnusedObjectPrunedProtectedKept ==
    /\ call.op = "optimize"
    /\ call.stats.nodes_removed = 1
    /\ call.stats.connections_removed = 0
    /\ connections = << >>
    /\ \E i \in 1..Len(nodes) : nodes[i].kind = "Comment"
    /\ \E i \in 1..Len(nodes) : nodes[i].kind = "Float" /\ ActiveName(nodes[i])


----------------------------------------------------------------------------
(* The placement auto_layout makes *)

\* C21: auto_layout never assigns a position to a hidden node, and a hidden
\* node takes no slot of a row, whatever connections exist
HiddenNodesNotPlaced ==
    (call.op = "auto_layout" /\ call.pc = "done")
    => \A i \in Indices(nodes) :
          nodes[i + 1].hidden
          => /\ i \notin DOMAIN call.pos
             /\ i \notin Range(call.order)


\* C22: after auto_layout the depth of a node is the length of the longest
\* path to it in the graph without the back-edges, so every connection that
\* is not a back-edge goes from a row to a strictly lower row (stated for the
\* connections between two nodes that are not hidden)
ConnectionsGoToLowerRows ==
    (call.op = "auto_layout" /\ call.pc = "done")
    => \A k \in 1..Len(connections) :
          LET s == connections[k].source
              t == connections[k].sink
          IN (/\ ~nodes[s + 1].hidden
              /\ ~nodes[t + 1].hidden
              /\ <<s, t>> \notin call.back_edges)
             => call.pos[s][2] < call.pos[t][2]


----------------------------------------------------------------------------
(* What parse makes of single statements *)

\* the number of arguments the __str__ of a widget class writes after the
\* class name
SchemaLength(class_name) ==
    Len(WidgetSchema(class_name)) + Len(WidgetTrailer(class_name))

\* the last statement of the text that was parsed
LastStatement == call.source[Len(call.source)]

\* the last element of the tree parse returned
LastElement == call.patch.elements[Len(call.patch.elements)]

\* C23: an obj statement whose keyword is a GUI-widget keyword and whose
\* argument count equals the widget's schema length is decoded into the
\* widget's own record, for each of the nine widget kinds
WidgetOfSchemaLengthDecoded ==
    (/\ call.op = "parse"
     /\ call.raised = ""
     /\ call.source # << >>
     /\ Len(LastStatement) >= 5
     /\ LastStatement[1] = "#X" /\ LastStatement[2] = "obj"
     /\ LastStatement[5] \in WidgetClasses
     /\ Len(LastStatement) - 5 = SchemaLength(LastStatement[5]))
    => /\ call.patch.elements # << >>
       /\ LastElement.kind = WidgetKind(LastStatement[5])


----------------------------------------------------------------------------
(* From the characters of a text to its statements: a text is the sequence
   of its characters *)

\* str.replace of the two characters a b by nothing, and of the character a
\* by the characters of with
RECURSIVE ReplacePair(_, _, _, _)
ReplacePair(content, a, b, with) ==
    IF content = << >> THEN << >>
    ELSE IF Len(content) >= 2 /\ content[1] = a /\ content[2] = b
    THEN with \o ReplacePair(SubSeq(content, 3, Len(content)), a, b, with)
    ELSE <<content[1]>> \o ReplacePair(Tail(content), a, b, with)

RECURSIVE ReplaceChar(_, _, _)
ReplaceChar(content, a, with) ==
    IF content = << >> THEN << >>
    ELSE (IF content[1] = a THEN with ELSE <<content[1]>>)
         \o ReplaceChar(Tail(content), a, with)

\* _preprocess: the line endings are normalized, then every backslash that
\* stands before a line break is removed together with the line break
_preprocess(content) ==
    ReplacePair(ReplaceChar(ReplacePair(content, "\r", "\n", <<"\n">>),
                            "\r", <<"\n">>),
                "\\", "\n", << >>)

\* str.strip
Whitespace == {" ", "\t", "\n", "\r"}

RECURSIVE lstrip(_)
lstrip(chars) ==
    IF chars # << >> /\ chars[1] \in Whitespace THEN lstrip(Tail(chars))
    ELSE chars

RECURSIVE rstrip(_)
rstrip(chars) ==
    IF chars # << >> /\ chars[Len(chars)] \in Whitespace
    THEN rstrip(SubSeq(chars, 1, Len(chars) - 1))
    ELSE chars

strip(chars) == rstrip(lstrip(chars))

\* the while loop of _split_statements from character i (0-based) on, with
\* the statements made so far and the characters of the current statement
RECURSIVE split_from(_, _, _, _)
split_from(content, i, statements, current) ==
    IF i >= Len(content)
    THEN (IF strip(current) # << >> THEN Append(statements, strip(current))
          ELSE statements)
    ELSE LET char == content[i + 1]
         IN IF char = "\\" /\ i + 1 < Len(content)
            THEN split_from(content, i + 2, statements,
                            current \o <<char, content[i + 2]>>)
            ELSE IF char = ";"
            THEN split_from(content, i + 1,
                            IF strip(Append(current, char)) # << >>
                            THEN Append(statements, strip(Append(current, char)))
                            ELSE statements,
                            << >>)
            ELSE split_from(content, i + 1, statements, Append(current, char))

_split_statements(content) == split_from(content, 0, << >>, << >>)

\* the characters a text is written with
Chars == {"a", " ", "\\", ";", "\n"}

\* a text is written character by character
WriteChar ==
    /\ call.op \in {NoCall.op, "content"}
    /\ LET content == IF call.op = "content" THEN call.content ELSE << >>
       IN /\ Len(content) < MaxChars
          /\ \E char \in Chars :
                call' = [op |-> "content", content |-> Append(content, char)]
    /\ UNCHANGED <<nodes, connections, foreign, nextId>>

\* the first two statements of parse(content)
SplitStatements ==
    /\ call.op = "content"
    /\ call' = [op |-> "split", content |-> call.content,
                statements |-> _split_statements(_preprocess(call.content))]
    /\ UNCHANGED <<nodes, connections, foreign, nextId>>

NextSplit ==
    \/ WriteChar
    \/ SplitStatements

SpecSplit == Init /\ [][NextSplit]_vars

\* the character at position i (1-based) of the text stands after an escape
\* character that is not itself escaped
RECURSIVE Escaped(_, _)
Escaped(content, i) ==
    /\ i > 1
    /\ content[i - 1] = "\\"
    /\ ~Escaped(content, i - 1)

\* the positions of the terminators that are not escaped
Terminators(content) ==
    {i \in 1..Len(content) : content[i] = ";" /\ ~Escaped(content, i)}

\* position i belongs to a line continuation: an escape character that is not
\* escaped and the line break after it
InContinuation(content, i) ==
    \/ /\ content[i] = "\\" /\ ~Escaped(content, i)
       /\ i < Len(content) /\ content[i + 1] = "\n"
    \/ content[i] = "\n" /\ Escaped(content, i)

\* after the last terminator there is something that is neither white space
\* nor a line continuation
HasRemainder(content) ==
    \E i \in 1..Len(content) :
        /\ \A t \in Terminators(content) : t < i
        /\ content[i] \notin Whitespace
        /\ ~InContinuation(content, i)

\* C24: a terminator ends the current statement exactly when it is not
\* escaped, an escaped escape character escaping nothing, also when it stands
\* directly before a line break: the text has one statement for each
\* terminator that is not escaped, each ending with its terminator, and one
\* more for what follows the last of them
UnescapedTerminatorsEndStatements ==
    call.op = "split" =>
        LET n == Cardinality(Terminators(call.content))
        IN /\ Len(call.statements)
                = n + (IF HasRemainder(call.content) THEN 1 ELSE 0)
           /\ \A k \in 1..n :
                 /\ k <= Len(call.statements)
                 /\ call.statements[k][Len(call.statements[k])] = ";"


\* the #X keywords parse has a branch for
DecodedCommands ==
    {"obj", "msg", "floatatom", "symbolatom", "text", "array", "connect",
     "coords", "restore", "pop"}

\* C25: for an #X statement whose keyword parse has no decoder for, the
\* element stored in the tree retains the keyword and every argument token of
\* the statement in order, none dropped and none replaced by a default
UnknownStatementKeepsTokens ==
    (/\ call.op = "parse"
     /\ call.raised = ""
     /\ call.source # << >>
     /\ Len(LastStatement) >= 2
     /\ LastStatement[1] = "#X"
     /\ LastStatement[2] \notin DecodedCommands)
    => /\ call.patch.elements # << >>
       /\ LastElement.class_name = LastStatement[2]
       /\ PositionStr(LastElement.position) \o LastElement.args
             = From(LastStatement, 2)


\* C26: to_builder(parse(text)) raises nothing, and a connection whose node
\* indices are in range is replayed into the graph whatever its outlet and
\* inlet index (stated for trees without directive elements whose connection
\* elements all have their node indices in range)
ToBuilderReplaysEveryConnection ==
    (/\ call.op = "to_builder"
     /\ \A k \in 1..Len(call.patch.elements) :
           /\ call.patch.elements[k].kind # "PdCoords"
           /\ (call.patch.elements[k].kind = "PdConnect")
              => EndsInRange(call.patch.elements[k],
                             Len(Addressable(call.patch.elements))))
    =>  /\ call.raised = ""
        /\ [k \in 1..Len(call.connections) |-> Key(call.connections[k])]
              = [k \in 1..Len(ConnectElements(call.patch.elements)) |->
                    ConnectElements(call.patch.elements)[k].conn]


----------------------------------------------------------------------------
(* Graphs built with add and link only, and what validation says of them *)

NextBuilt ==
    \/ Add
    \/ Link
    \/ LinkOutlet
    \/ Validate

SpecBuilt == Init /\ [][NextBuilt]_vars

\* C27: every graph built only through add and link passes
\* validate_connections(check_cycles=False): link records no connection that
\* validation flags, a negative outlet or inlet index included
BuiltGraphPassesValidation ==
    (call.op = "validate" /\ ~call.check_cycles)
    => /\ call.raised = ""
       /\ call.errors = << >>


----------------------------------------------------------------------------
(* Sub-graphs and optimize(recursive=True) *)

\* an inner patch with one inlet object and one outlet object, not connected
LooseInOutPatch ==
    [nodes |-> <<AddObj(0, <<"inlet">>, None, None),
                 AddObj(1, <<"outlet">>, None, None)>>,
     connections |-> << >>]

\* p.add(text) or p.add_subpatch(name, src), the counts of the sub-graph node
\* being inferred from src
AddInner ==
    /\ Len(nodes) < MaxPrune
    /\ nextId < MaxPrune
    /\ \E node \in {AddObj(nextId, <<"foo">>, None, None),
                    AddSubpatch(nextId, "sub", InOutPatch, None, None),
                    AddSubpatch(nextId, "sub", LooseInOutPatch, None, None)} :
          nodes' = Append(nodes, node)
    /\ call' = [op |-> "add"]
    /\ nextId' = nextId + 1
    /\ UNCHANGED <<connections, foreign>>

NextInner ==
    \/ AddInner
    \/ LinkPrune
    \/ Optimize

SpecInner == Init /\ [][NextInner]_vars

\* C28: optimize(recursive=True) never changes the number of inlet and outlet
\* objects inside the inner graph of a sub-graph node, so the node's declared
\* counts still match its inner graph after the call
RecursiveOptimizeKeepsInterface ==
    [][(call'.op = "optimize" /\ call'.recursive)
       => \A i \in 1..Len(nodes), j \in 1..Len(nodes') :
             (nodes[i].kind = "Subpatch" /\ nodes'[j].id = nodes[i].id)
             => /\ CountClass(nodes'[j].src, {"inlet", "inlet~"})
                      = CountClass(nodes[i].src, {"inlet", "inlet~"})
                /\ CountClass(nodes'[j].src, {"outlet", "outlet~"})
                      = CountClass(nodes[i].src, {"outlet", "outlet~"})
                /\ nodes'[j].num_inlets
                      = CountClass(nodes'[j].src, {"inlet", "inlet~"})
                /\ nodes'[j].num_outlets
                      = CountClass(nodes'[j].src, {"outlet", "outlet~"})
      ]_vars


\* C29: optimize reaches a fixpoint in one call: a second call with the same
\* arguments removes no node and leaves the node list as it is
SecondOptimizeRemovesNoNode ==
    [][(/\ call.op = "optimize"
        /\ call'.op = "optimize"
        /\ call'.recursive = call.recursive
        /\ call'.collapsible_objects = call.collapsible_objects)
       => /\ call'.stats.nodes_removed = 0
          /\ nodes' = nodes]_vars


\* ---------------------------------------------------------------------------
\* The text of a graph (api.py __str__) against its tree: str(p) is parsed and
\* from_builder(p) is taken of the same graph.

MaxStr == 2

\* Float.__init__ with its keyword arguments; the limits are Python numbers,
\* here the integers a caller writes
FloatAtom(id, width, upper_limit, lower_limit, label, receive, send) ==
    [id |-> id, kind |-> "Float", text |-> << >>, num_inlets |-> 1,
     num_outlets |-> 1, hidden |-> FALSE, src |-> EmptyPatch,
     width |-> width, upper_limit |-> upper_limit,
     lower_limit |-> lower_limit, label |-> label, receive |-> receive,
     send |-> send]

\* the nodes added: an object, a toggle with the default arguments, and float
\* atoms with default and other limits, label and names
StrChoices(id) ==
    {AddObj(id, <<"osc~", "440">>, None, None), Gui(id, "Toggle")}
    \cup {FloatAtom(id, 5, upper_limit, lower_limit, label, receive, send) :
            upper_limit \in {0, 7}, lower_limit \in {0, 1},
            label \in {"-", "lab"}, receive \in {"-", "r"},
            send \in {"-", "s"}}

\* Obj.__str__, Float.__str__ and Toggle.__str__: the statement of a node
NodeStr(node) ==
    CASE node.kind = "Obj" ->
           <<"#X", "obj">> \o PositionStr(NodePosition(node)) \o node.text
      [] node.kind = "Float" ->
           <<"#X", "floatatom">> \o PositionStr(NodePosition(node)) \o
           <<Literal(IntLiterals, node.width),
             Literal(IntLiterals, node.upper_limit),
             Literal(IntLiterals, node.lower_limit),
             node.label, node.receive, node.send>>
      [] node.kind = "Toggle" ->
           <<"#X", "obj">> \o PositionStr(NodePosition(node)) \o <<"tgl">> \o
           FormatFields(WidgetSchema("tgl"), ToggleParameters)

\* Connection.__str__
ConnectionStr(conn) ==
    <<"#X", "connect", Literal(IntLiterals, conn.source),
      Literal(IntLiterals, conn.outlet_index),
      Literal(IntLiterals, conn.sink),
      Literal(IntLiterals, conn.inlet_index)>>

\* Patcher.__str__: the canvas line, the nodes, the connections
PatcherStr(patch) ==
    <<<<"#N", "canvas", "0", "50", "1000", "600", "10">>>> \o
    [i \in 1..Len(patch.nodes) |-> NodeStr(patch.nodes[i])] \o
    [k \in 1..Len(patch.connections) |-> ConnectionStr(patch.connections[k])]

\* p.add(Obj | Float | Toggle)
AddStr ==
    /\ call.op \in {NoCall.op, "add", "link"}
    /\ Len(nodes) < MaxStr
    /\ nextId < MaxStr
    /\ \E node \in StrChoices(nextId) :
          /\ nodes' = Append(nodes, node)
          /\ call' = [op |-> "add"]
    /\ nextId' = nextId + 1
    /\ UNCHANGED <<connections, foreign>>

\* p.link(source, sink) with the default outlet 0 and inlet 0
LinkStr ==
    /\ call.op \in {"add", "link"}
    /\ LinkPrune

\* str(p)
Str ==
    /\ call.op \in {NoCall.op, "add", "link"}
    /\ call' = [op |-> "text",
                text |-> PatcherStr([nodes |-> nodes,
                                     connections |-> connections])]
    /\ UNCHANGED <<nodes, connections, foreign, nextId>>

\* from_builder(p) for the graph whose text was parsed
FromBuilderStr ==
    /\ call.op = "parse"
    /\ call.raised = ""
    /\ call' = [op |-> "str_and_tree", parsed |-> call.patch,
                built |-> from_builder([nodes |-> nodes,
                                        connections |-> connections])]
    /\ UNCHANGED <<nodes, connections, foreign, nextId>>

NextStr ==
    \/ AddStr
    \/ LinkStr
    \/ Str
    \/ Parse
    \/ FromBuilderStr

SpecStr == Init /\ [][NextStr]_vars

\* C30: for a graph P, parse(str(P)) and from_builder(P) have the same element
\* kinds and the same field values: for a float atom its width, lower limit,
\* upper limit, label, receive and send names, for a toggle a toggle record
StrParseEqualsFromBuilder ==
    call.op = "str_and_tree" => SameElements(call.parsed.elements, call.built)


====
